---- MODULE Spec2Model ----
(***************************************************************************)
(* Ranking pipelines of the ncaa-basketball-rankings repository.           *)
(*                                                                         *)
(* Each program is modelled as its own specification:                      *)
(*   SpecV3         scripts/final_model_v3.py (FinalPredictiveModelV3)     *)
(*   SpecSwish      swish_score_calculator.py, swish_score_calculator_v2.py*)
(*   SpecWeights    the constructors of the NCAA model classes             *)
(*   SpecExperience scripts/final_predictive_model.py and                  *)
(*                  scripts/experience_enhanced_model.py                   *)
(*   SpecHybrid     scripts/hybrid_model.py                                *)
(*   SpecWeighted   scripts/weighted_model_v2.py                           *)
(*   SpecRankers    scripts/predictive_model.py, defense_focused_model.py, *)
(*                  final_model_v2.py, final_predictive_model_clean.py     *)
(*   SpecScrape     scripts/scrape_kenpom.py                               *)
(*   SpecEra        the era lookups of the SWISH calculators               *)
(*   SpecDeploy     deploy_updates.py                                      *)
(*   SpecPredict    scripts/game_predictions.py, scripts/validate_model.py *)
(* and Spec is the union of them.                                          *)
(*                                                                         *)
(* Number representation.  The cells of the input tables are decimal       *)
(* numbers and are held as integers in tenths (AdjOE, AdjDE, Experience,   *)
(* TO%) or in the unit named at the table.  The scores of the SWISH        *)
(* calculators and of every NCAA model but V3 are IEEE 754 doubles,        *)
(* computed operation by operation as the code computes them, with NaN and *)
(* the infinities.  The V3 sub-scores are in units of 1/Scale point and the*)
(* V3 Final_Score in units of 1/(100*Scale) point (exact for the table     *)
(* lengths used).                                                          *)
(***************************************************************************)
EXTENDS Integers, Sequences, FiniteSets, TLC

VARIABLES prog, pc, cls, arg, env, out, files, data, results_df,
          player_data, weights, runs

vars == <<prog, pc, cls, arg, env, out, files, data, results_df,
          player_data, weights, runs>>

(***************************************************************************)
(* Bounds                                                                  *)
(***************************************************************************)
MaxTeams == 3
MaxRuns == 2

(***************************************************************************)
(* Helpers                                                                 *)
(***************************************************************************)
\* weights=None: no custom weights are passed to the constructor
NoArg == [none |-> TRUE]

Min(a, b) == IF a <= b THEN a ELSE b
Max(a, b) == IF a >= b THEN a ELSE b

RECURSIVE SumSeq(_)
SumSeq(s) == IF s = <<>> THEN 0 ELSE Head(s) + SumSeq(Tail(s))

\* w[1] * xs[1] + ... + w[n] * xs[n]
Dot(w, xs) == SumSeq([i \in 1..Len(w) |-> w[i] * xs[i]])

\* Units per score point for the NCAA sub-scores: count/len*100 is exact
\* for every table length that divides Scale.
Scale == 2 * 2 * 2 * 3 * 5
Hundred == 100 * Scale

(***************************************************************************)
(* Float arithmetic.  The scores are Python and numpy floats (IEEE 754     *)
(* binary64): every operation returns the float nearest to the exact       *)
(* result, the one with the even mantissa when two are equally near.  A    *)
(* float is the record [s, m, e] of the value s * m * 2^e with sign s,     *)
(* mantissa 2^52 <= m < 2^53 and exponent e; 0.0 is [1, 0, 0].  Mantissas  *)
(* need more than the 31 bits of an integer here, so that they are kept    *)
(* as sequences of digits to the base 2^15, least significant first, and   *)
(* without leading zeros.  nan is [0, 0, 0] and inf is [s, 0, 1]: numpy     *)
(* numbers divide by 0.0 without raising.  Overflow, subnormal numbers and *)
(* the sign of 0.0 are outside the range of the scores.                    *)
(***************************************************************************)
Limb == 2 ^ 15

Digit(a, k) == IF k <= Len(a) THEN a[k] ELSE 0

\* the digits of the integer n >= 0
RECURSIVE Big(_)
Big(n) == IF n = 0 THEN <<>> ELSE <<n % Limb>> \o Big(n \div Limb)

\* the digit d below the digits of rest
PutBelow(d, rest) == IF d = 0 /\ rest = <<>> THEN <<>> ELSE <<d>> \o rest

\* the digits of the number whose k-th digit may be any integer c[k]
RECURSIVE Carry(_, _)
Carry(c, carry) ==
  IF c = <<>> THEN Big(carry)
  ELSE PutBelow((c[1] + carry) % Limb, Carry(Tail(c), (c[1] + carry) \div Limb))

BigAdd(a, b) ==
  Carry([k \in 1..(IF Len(a) > Len(b) THEN Len(a) ELSE Len(b)) |->
           Digit(a, k) + Digit(b, k)], 0)

\* a - b for a >= b
BigSub(a, b) == Carry([k \in 1..Len(a) |-> a[k] - Digit(b, k)], 0)

\* -1, 0 or 1 as a is less than, equal to or greater than b, which differ
\* in the digits of the set differ: the highest of them decides
BigCmpAt(a, b, differ) ==
  IF differ = {} THEN 0
  ELSE IF \E k \in differ : (\A j \in differ : j <= k) /\ Digit(a, k) < Digit(b, k)
  THEN 0 - 1
  ELSE 1

BigCmp(a, b) ==
  BigCmpAt(a, b, {k \in 1..(IF Len(a) > Len(b) THEN Len(a) ELSE Len(b)) :
                    Digit(a, k) # Digit(b, k)})

\* a * k for 0 <= k < 2^15
BigMulSmall(a, k) == Carry([i \in 1..Len(a) |-> a[i] * k], 0)

\* a * 2^(15 * j)
BigShiftDigits(a, j) == IF a = <<>> THEN <<>> ELSE [i \in 1..j |-> 0] \o a

RECURSIVE BigMulFrom(_, _, _)
BigMulFrom(a, b, j) ==
  IF j > Len(b) THEN <<>>
  ELSE BigAdd(BigShiftDigits(BigMulSmall(a, b[j]), j - 1), BigMulFrom(a, b, j + 1))

BigMul(a, b) == BigMulFrom(a, b, 1)

\* a * 2^j
BigShl(a, j) == BigShiftDigits(BigMulSmall(a, 2 ^ (j % 15)), j \div 15)

\* the number of binary digits of a
BitLen(a) ==
  IF a = <<>> THEN 0
  ELSE 15 * (Len(a) - 1) + (CHOOSE b \in 1..15 : a[Len(a)] \div 2 ^ (b - 1) = 1)

\* the binary digit of a that counts 2^k
Bit(a, k) == (Digit(a, k \div 15 + 1) \div 2 ^ (k % 15)) % 2

\* whether a binary digit of a that counts less than 2^k is 1
AnyBitBelow(a, k) ==
  \E i \in 1..Len(a) :
    /\ 15 * (i - 1) < k
    /\ a[i] % (IF k - 15 * (i - 1) >= 15 THEN Limb ELSE 2 ^ (k - 15 * (i - 1))) # 0

\* the quotient digit put above the digits of rest = <<quotient, remainder>>
PutDigit(rest, digit) == <<rest[1] \o <<digit>>, rest[2]>>

\* <<floor(a / d), a mod d>> for 0 < d < 2^15, digit by digit from the top
RECURSIVE BigDivSmallFrom(_, _, _, _)
BigDivSmallFrom(a, d, k, rem) ==
  IF k = 0 THEN <<<<>>, rem>>
  ELSE PutDigit(BigDivSmallFrom(a, d, k - 1, (rem * Limb + a[k]) % d),
                (rem * Limb + a[k]) \div d)

TrimQuotient(qr) == <<Carry(qr[1], 0), qr[2]>>

BigDivSmall(a, d) == TrimQuotient(BigDivSmallFrom(a, d, Len(a), 0))

\* long division by b, whose top digit is at least 2^14: the digits of the
\* quotient from digit j down.  The quotient of the two top digits of the
\* remainder by the top digit of b is the digit or up to 2 more than it:
\* the digit is the first of guess, guess - 1, guess - 2 whose product with
\* b the remainder holds
RECURSIVE BigDivFrom(_, _, _, _)
RECURSIVE BigDivDigit(_, _, _, _, _, _)
BigDivDigit(rem, b, j, q, d, product) ==
  IF BigCmp(product, rem) <= 0
  THEN BigDivFrom(BigSub(rem, product), b, j - 1, <<d>> \o q)
  ELSE BigDivDigit(rem, b, j, q, d - 1, BigShiftDigits(BigMulSmall(b, d - 1), j))

BigDivGuess(rem, b, j, q, guess) ==
  BigDivDigit(rem, b, j, q, guess, BigShiftDigits(BigMulSmall(b, guess), j))

BigDivTop(rem, b, j, q, top) ==
  BigDivGuess(rem, b, j, q,
              IF top \div b[Len(b)] < Limb THEN top \div b[Len(b)] ELSE Limb - 1)

BigDivFrom(rem, b, j, q) ==
  IF j < 0 THEN <<q, rem>>
  ELSE BigDivTop(rem, b, j, q,
                 Digit(rem, j + Len(b) + 1) * Limb + Digit(rem, j + Len(b)))

\* <<floor(a / b), a mod b # 0>> for b > 0
QuotientAndExactness(qr) == <<Carry(qr[1], 0), qr[2] # <<>>>>

BigDivNormal(a, b) == QuotientAndExactness(BigDivFrom(a, b, Len(a) - Len(b), <<>>))

FZero == [s |-> 1, m |-> <<>>, e |-> 0]

\* nan, and inf with the sign s
FNaN == [s |-> 0, m |-> <<>>, e |-> 0]

FInf(s) == [s |-> s, m |-> <<>>, e |-> 1]

FIsNaN(x) == x.s = 0

FIsInf(x) == x.s # 0 /\ x.m = <<>> /\ x.e = 1

FIsZero(x) == x.s # 0 /\ x.m = <<>> /\ x.e = 0

\* 2^52 and 2^53 - 1, the least and the greatest mantissa
MantissaMin == <<0, 0, 0, 128>>

MantissaMax == <<Limb - 1, Limb - 1, Limb - 1, 255>>

\* the float of the mantissa q, or of q + 1 when up
FRounded(s, q, e, up) ==
  IF ~up THEN [s |-> s, m |-> q, e |-> e]
  ELSE IF q = MantissaMax THEN [s |-> s, m |-> MantissaMin, e |-> e + 1]
  ELSE [s |-> s, m |-> Carry([q EXCEPT ![1] = @ + 1], 0), e |-> e]

\* the float nearest to s * n * 2^e for n of 53 + cut binary digits: n
\* without its cut lowest digits, and one more when these are above half
\* a unit, or at half a unit next to an odd mantissa
FCutAt(s, n, e, inexact, cut) ==
  FRounded(s,
           [k \in 1..4 |->
              (Digit(n, k + cut \div 15) \div 2 ^ (cut % 15))
                + (Digit(n, k + cut \div 15 + 1) % 2 ^ (cut % 15)) * 2 ^ (15 - (cut % 15))],
           e + cut,
           Bit(n, cut - 1) = 1 /\ (inexact \/ Bit(n, cut) = 1 \/ AnyBitBelow(n, cut - 1)))

\* the float nearest to s * n * 2^e, or to a number just above n * 2^e in
\* magnitude when inexact says that digits were cut off n; n is 0 or has
\* more than 53 binary digits
FCut(s, n, e, inexact) == IF n = <<>> THEN FZero ELSE FCutAt(s, n, e, inexact, BitLen(n) - 53)

\* float(p / q) for integers p and 0 < q < 2^15: a decimal cell or literal
\* (q a power of ten) or the quotient of two integers
FromQuotient(s, qr) == FCut(s, qr[1], 0 - 75, qr[2] # 0)

FromRatio(p, q) ==
  FromQuotient(IF p < 0 THEN 0 - 1 ELSE 1,
               BigDivSmall(BigShiftDigits(Big(IF p < 0 THEN 0 - p ELSE p), 5), q))

\* the float of the integer s * n for the digits n, of len binary digits
FromBig(s, n, len) ==
  IF len = 0 THEN FZero ELSE [s |-> s, m |-> BigShl(n, 53 - len), e |-> len - 53]

FromMagnitude(s, n) == FromBig(s, n, BitLen(n))

FromInt(n) == FromMagnitude(IF n < 0 THEN 0 - 1 ELSE 1, Big(IF n < 0 THEN 0 - n ELSE n))

FNeg(x) == IF FIsZero(x) THEN x ELSE [x EXCEPT !.s = 0 - x.s]

FAbs(x) == IF FIsNaN(x) THEN x ELSE [x EXCEPT !.s = 1]

\* sn[1] * sn[2] * 2^e for a sign and digits that are 0 or 2^60 and more
FSigned(sn, e) == FCut(sn[1], sn[2], e, FALSE)

\* sx * nx * 2^e + sy * ny * 2^e
FAddAligned(sx, nx, sy, ny, e) ==
  FSigned(IF sx = sy THEN <<sx, BigAdd(nx, ny)>>
          ELSE IF BigCmp(nx, ny) >= 0 THEN <<sx, BigSub(nx, ny)>>
          ELSE <<sy, BigSub(ny, nx)>>,
          e)

\* x + y for x.e >= y.e: both in units of 2^(y.e - 60), of which a sum
\* that is not 0 has more than 53 binary digits
FAddOrdered(x, y) ==
  FAddAligned(x.s, BigShiftDigits(BigShl(x.m, x.e - y.e), 4), y.s, BigShiftDigits(y.m, 4),
              y.e - 60)

\* x + y when one of the two is 0.0, inf or nan: inf - inf is nan
FAddSpecial(x, y) ==
  IF FIsNaN(x) \/ FIsNaN(y) THEN FNaN
  ELSE IF FIsInf(x) THEN (IF FIsInf(y) /\ x.s # y.s THEN FNaN ELSE x)
  ELSE IF FIsInf(y) THEN y
  ELSE IF FIsZero(x) THEN y
  ELSE x

\* x + y
FAdd(x, y) ==
  IF x.m = <<>> \/ y.m = <<>> THEN FAddSpecial(x, y)
  ELSE FAddOrdered(IF x.e < y.e THEN y ELSE x, IF x.e < y.e THEN x ELSE y)

\* x - y
FSub(x, y) == FAdd(x, FNeg(y))

\* x * y when one of the two is 0.0, inf or nan: inf * 0.0 is nan
FMulSpecial(x, y) ==
  IF FIsNaN(x) \/ FIsNaN(y) THEN FNaN
  ELSE IF FIsInf(x) \/ FIsInf(y)
  THEN (IF FIsZero(x) \/ FIsZero(y) THEN FNaN ELSE FInf(x.s * y.s))
  ELSE FZero

\* x * y
FMul(x, y) ==
  IF x.m = <<>> \/ y.m = <<>> THEN FMulSpecial(x, y)
  ELSE FCut(x.s * y.s, BigMul(x.m, y.m), x.e + y.e, FALSE)

FDivRound(s, qr, e) == FCut(s, qr[1], e, qr[2])

\* x / y of two numpy numbers when one of the two is 0.0, inf or nan:
\* 0.0 / 0.0 and inf / inf are nan, and any other x / 0.0 is inf
FDivSpecial(x, y) ==
  IF FIsNaN(x) \/ FIsNaN(y) THEN FNaN
  ELSE IF FIsInf(x) THEN (IF FIsInf(y) THEN FNaN ELSE FInf(x.s * y.s))
  ELSE IF FIsInf(y) THEN FZero
  ELSE IF FIsZero(y) THEN (IF FIsZero(x) THEN FNaN ELSE FInf(x.s))
  ELSE FZero

\* x / y as numpy divides: a division by 0.0 does not raise.  The quotient
\* of the mantissas is taken to 56 binary digits below the point; both are
\* first multiplied by 2^7, which brings the top digit of y.m to 2^14
FDiv(x, y) ==
  IF x.m = <<>> \/ y.m = <<>> THEN FDivSpecial(x, y)
  ELSE FDivRound(x.s * y.s,
                 BigDivNormal(BigShiftDigits(BigMulSmall(x.m, 8), 4), BigMulSmall(y.m, 128)),
                 x.e - y.e - 56)

\* 0 for 0.0, 1 for another finite float, 2 for inf
FClass(x) == IF x.m # <<>> THEN 1 ELSE IF x.e = 1 THEN 2 ELSE 0

\* whether abs(x) < abs(y): 0.0 is below every other float and inf above,
\* and of two mantissas of 53 digits the exponent decides before the
\* mantissa
FLessAbs(x, y) ==
  IF x.m = <<>> \/ y.m = <<>> THEN FClass(x) < FClass(y)
  ELSE IF x.e # y.e THEN x.e < y.e
  ELSE BigCmp(x.m, y.m) < 0

\* x < y: false when one of the two is nan
FLess(x, y) ==
  IF x.s = 0 \/ y.s = 0 THEN FALSE
  ELSE IF x.s # y.s THEN x.s < y.s
  ELSE FLessAbs(IF x.s = 1 THEN x ELSE y, IF x.s = 1 THEN y ELSE x)

\* x <= y and x >= y: false when one of the two is nan
FLessEq(x, y) == ~FIsNaN(x) /\ ~FIsNaN(y) /\ ~FLess(y, x)

FGreaterEq(x, y) == FLessEq(y, x)

\* min(x, y) and max(x, y) of Python: the first of two equal arguments
FMin(x, y) == IF FLess(y, x) THEN y ELSE x

FMax(x, y) == IF FLess(x, y) THEN y ELSE x

(***************************************************************************)
(* FinalPredictiveModelV3                                                  *)
(***************************************************************************)
\* self.weights, in percent
V3Weights ==
  [defensive_rating |-> 30, offensive_rating |-> 30, recent_performance |-> 20,
   experience |-> 15, turnover_margin |-> 5]

V3Factors == DOMAIN V3Weights

\* row with the columns of r2 added or overwritten
Merge(r1, r2) ==
  [f \in (DOMAIN r1) \cup (DOMAIN r2) |-> IF f \in DOMAIN r2 THEN r2[f] ELSE r1[f]]

\* the three CSV files load_all_data reads
TableNames == {"rankings", "personnel", "four_factors"}

\* the sequences of a sequence, one after the other
RECURSIVE Flatten(_)
Flatten(seqs) ==
  IF Len(seqs) = 0 THEN <<>> ELSE Head(seqs) \o Flatten(Tail(seqs))

\* a join by row position instead of by Team
InnerMergeByPosition(left, right) ==
  [i \in 1..Min(Len(left), Len(right)) |-> Merge(right[i], left[i])]

\* pd.merge(left, right, on='Team', how='inner'): the rows of left in their
\* order, each joined with every row of right of the same Team; a column
\* both tables have keeps the value of left
InnerMerge(left, right) ==
  Flatten([i \in 1..Len(left) |->
             LET SameTeam(r) == r.Team = left[i].Team
                 hits == SelectSeq(right, SameTeam)
             IN  [k \in 1..Len(hits) |-> Merge(hits[k], left[i])]])

\* self.data.columns after load_all_data
MergedColumns(f) ==
  f.rankings.columns \cup f.personnel.columns \cup f.four_factors.columns
    \cup {"Turnover_Margin"}

\* load_all_data raises: a CSV is not there (FileNotFoundError), a table has
\* no Team column to merge on or the turnover columns are not there
\* (KeyError), or the four-factors CSV holds its header and no row
\* (TypeError).  read_csv gives the columns of such a file dtype object, so
\* that Def-TO% - Off-TO% is an empty column of dtype object, which nlargest
\* does not take.  The columns of a file that has rows keep their dtype
\* through a merge that leaves no row
LoadRaises(f) ==
  \/ \E t \in TableNames : ~f[t].exists
  \/ \E t \in TableNames : "Team" \notin f[t].columns
  \/ ~({"Off_TO", "Def_TO"} \subseteq MergedColumns(f))
  \/ Len(f.four_factors.rows) = 0

(***************************************************************************)
(* Def-TO% and Off-TO%, AdjOE and AdjDE are read as floats: a cell of x    *)
(* tenths is the float nearest to x / 10.  Their difference is the         *)
(* difference of these two floats, which is not always the float nearest   *)
(* to the difference of the tenths: 17.1 - 14.1 is 3.0000000000000018.     *)
(***************************************************************************)
\* floor(log2(x / 10)) for 0.1 <= x / 10 < 256
BinaryExponent(x) ==
  IF x >= 1280 THEN 7 ELSE IF x >= 640 THEN 6 ELSE IF x >= 320 THEN 5 ELSE IF x >= 160 THEN 4
  ELSE IF x >= 80 THEN 3 ELSE IF x >= 40 THEN 2 ELSE IF x >= 20 THEN 1
  ELSE IF x >= 10 THEN 0 ELSE IF x >= 5 THEN 0 - 1 ELSE IF x >= 3 THEN 0 - 2
  ELSE IF x >= 2 THEN 0 - 3 ELSE 0 - 4

\* float(x / 10) - x / 10 in units of 2^-56 / 10, for 0 <= x < 2560.  The
\* float has 52 - n bits after the point, n its binary exponent, so that it
\* is round(x * 2^(52-n) / 10) / 2^(52-n); the remainder of x * 2^(52-n) by
\* 10 follows from 2^k mod 10, which is 6, 2, 4, 8 for k mod 4 = 0, 1, 2, 3
FloatError(x) ==
  IF x = 0 THEN 0
  ELSE LET n == BinaryExponent(x)
           two_k == <<2, 4, 8, 6>>[((52 - n + 3) % 4) + 1]
           r == (x * two_k) % 10
           e == IF r < 5 THEN 0 - r ELSE 10 - r
       IN  e * 2 ^ (n + 4)

\* t tenths as a float difference: the difference is in units of 1/100000
\* of a tenth, the tenths of it followed by its float error
Tenths(t) == t * 100000

\* a - b, the float difference of two cells given in tenths.  When neither
\* float is more than twice the other the subtraction itself does not
\* round, and the error of the difference is the difference of the errors
FloatDifference(a, b) == Tenths(a - b) + FloatError(a) - FloatError(b)

\* self.data: the three CSVs merged, plus the derived Turnover_Margin column
load_all_data(f) ==
  LET merged == InnerMerge(InnerMerge(f.rankings.rows, f.personnel.rows),
                           f.four_factors.rows)
  IN  [i \in 1..Len(merged) |->
         Merge(merged[i],
               [Turnover_Margin |->
                  FloatDifference(merged[i].Def_TO, merged[i].Off_TO)])]

\* (all_def >= team_row['AdjDE']).sum() / len(all_def) * 100
DefPercentileInclusive(d, team_row) ==
  (Cardinality({i \in 1..Len(d) : d[i].AdjDE >= team_row.AdjDE}) * 100 * Scale)
     \div Len(d)

\* (all_def > team_row['AdjDE']).sum() / len(all_def) * 100
DefPercentile(d, team_row) ==
  (Cardinality({i \in 1..Len(d) : d[i].AdjDE > team_row.AdjDE}) * 100 * Scale)
     \div Len(d)

\* (team_row['AdjOE'] > all_off).sum() / len(all_off) * 100
OffPercentile(d, team_row) ==
  (Cardinality({i \in 1..Len(d) : team_row.AdjOE > d[i].AdjOE}) * 100 * Scale)
     \div Len(d)

\* (margin > all_margins).sum() / len(all_margins) * 100
MarginPercentile(d, team_row) ==
  (Cardinality({i \in 1..Len(d) :
                  team_row.Turnover_Margin > d[i].Turnover_Margin}) * 100 * Scale)
     \div Len(d)

\* calculate_defensive_rating without the min(100, ...) around the bonus
calculate_defensive_rating_unclamped(d, team_row) ==
  LET def_percentile == DefPercentile(d, team_row)
  IN  IF team_row.AdjDE_Rank <= 10 THEN def_percentile + 5 * Scale
      ELSE IF team_row.AdjDE_Rank <= 25 THEN def_percentile + 2 * Scale
      ELSE def_percentile

calculate_defensive_rating(d, team_row) ==
  LET def_percentile == DefPercentile(d, team_row)
  IN  IF team_row.AdjDE_Rank <= 10 THEN Min(Hundred, def_percentile + 5 * Scale)
      ELSE IF team_row.AdjDE_Rank <= 25 THEN Min(Hundred, def_percentile + 2 * Scale)
      ELSE def_percentile

calculate_offensive_rating(d, team_row) ==
  LET off_percentile == OffPercentile(d, team_row)
  IN  IF team_row.AdjOE_Rank <= 10 THEN Min(Hundred, off_percentile + 4 * Scale)
      ELSE IF team_row.AdjOE_Rank <= 25 THEN Min(Hundred, off_percentile + 2 * Scale)
      ELSE off_percentile

\* self.data[self.data['Team'] == team_name].iloc[0]
FirstRow(d, team_name) ==
  d[CHOOSE i \in 1..Len(d) :
      /\ d[i].Team = team_name
      /\ \A j \in 1..(i - 1) : d[j].Team # team_name]

calculate_recent_performance(d, team_name) ==
  LET rank == FirstRow(d, team_name).AdjEM_Rank
  IN  IF rank <= 5 THEN 98 * Scale
      ELSE IF rank <= 10 THEN 93 * Scale
      ELSE IF rank <= 25 THEN 85 * Scale
      ELSE IF rank <= 50 THEN 75 * Scale
      ELSE IF rank <= 75 THEN 65 * Scale
      ELSE IF rank <= 100 THEN 55 * Scale
      ELSE 40 * Scale

\* Experience is in tenths of a year: 2.5 is 25
calculate_experience(team_row) ==
  LET exp_value == team_row.Experience
      team_rank == team_row.AdjEM_Rank
  IN  IF team_rank <= 10 THEN
        (IF exp_value >= 25 THEN 100 * Scale
         ELSE IF exp_value >= 20 THEN 90 * Scale ELSE 80 * Scale)
      ELSE IF team_rank <= 25 THEN
        (IF exp_value >= 25 THEN 95 * Scale
         ELSE IF exp_value >= 20 THEN 80 * Scale ELSE 70 * Scale)
      ELSE IF team_rank <= 50 THEN
        (IF exp_value >= 25 THEN 90 * Scale
         ELSE IF exp_value >= 20 THEN 70 * Scale
         ELSE IF exp_value >= 15 THEN 55 * Scale ELSE 40 * Scale)
      ELSE
        (IF exp_value >= 30 THEN 85 * Scale
         ELSE IF exp_value >= 25 THEN 70 * Scale
         ELSE IF exp_value >= 20 THEN 50 * Scale ELSE 20 * Scale)

\* calculate_turnover_margin with the penalty subtracted and no max(0, ...)
calculate_turnover_margin_unfloored(d, team_row) ==
  LET margin == team_row.Turnover_Margin
      p0 == MarginPercentile(d, team_row)
      p1 == IF margin > Tenths(50) THEN Min(Hundred, p0 + 10 * Scale)
            ELSE IF margin > Tenths(30) THEN Min(Hundred, p0 + 5 * Scale)
            ELSE p0
  IN  IF margin < Tenths(0 - 30) THEN p1 - 10 * Scale ELSE p1

calculate_turnover_margin(d, team_row) ==
  LET margin == team_row.Turnover_Margin
      p0 == MarginPercentile(d, team_row)
      p1 == IF margin > Tenths(50) THEN Min(Hundred, p0 + 10 * Scale)
            ELSE IF margin > Tenths(30) THEN Min(Hundred, p0 + 5 * Scale)
            ELSE p0
  IN  IF margin < Tenths(0 - 30) THEN Max(0, p1 - 10 * Scale) ELSE p1

V3Scores(d, team_row) ==
  [defensive_rating |-> calculate_defensive_rating(d, team_row),
   offensive_rating |-> calculate_offensive_rating(d, team_row),
   recent_performance |-> calculate_recent_performance(d, team_row.Team),
   experience |-> calculate_experience(team_row),
   turnover_margin |-> calculate_turnover_margin(d, team_row)]

RECURSIVE WeightedSum(_, _, _)
WeightedSum(scores, w, factors) ==
  IF factors = {} THEN 0
  ELSE LET f == CHOOSE x \in factors : TRUE
       IN  scores[f] * w[f] + WeightedSum(scores, w, factors \ {f})

\* total, in units of 1/(100*Scale) point
calculate_total_score(d, team_row, w) ==
  WeightedSum(V3Scores(d, team_row), w, V3Factors)

(***************************************************************************)
(* DataFrame.sort_values(by) orders the rows by nargsort of the column,    *)
(* which calls numpy's argsort with the default kind, quicksort            *)
(* (npysort/quicksort.cpp, aquicksort): a median-of-three quicksort on the *)
(* index array that leaves ranges of up to 17 entries to an insertion      *)
(* sort.  The insertion sort keeps equal keys in their order, the          *)
(* partition does not.  The introsort depth limit, 2 * floor(log2(n))      *)
(* partitions below one another, is not reached by a table of fewer than   *)
(* 34 rows.                                                                *)
(***************************************************************************)
Swap(s, i, j) == [s EXCEPT ![i] = s[j], ![j] = s[i]]

\* the insertion sort of tosort[pl..pr], from entry pi on
\* a table with every row computed
Rows(df) == SubSeq(df, 1, Len(df))

\* where the while loop of the insertion sort stops for entry pi: the
\* entries from there to pi - 1 are greater and move up by one
InsertionPoint(v, tosort, pl, pi) ==
  CHOOSE j \in pl..pi :
    /\ \A k \in j..(pi - 1) : v[tosort[pi]] < v[tosort[k]]
    /\ j = pl \/ ~(v[tosort[pi]] < v[tosort[j - 1]])

InsertAt(tosort, pi, pj) ==
  Rows([k \in 1..Len(tosort) |->
          IF k = pj THEN tosort[pi]
          ELSE IF k > pj /\ k <= pi THEN tosort[k - 1]
          ELSE tosort[k]])

RECURSIVE InsertionSort(_, _, _, _, _)
InsertionSort(v, tosort, pl, pr, pi) ==
  IF pi > pr THEN tosort
  ELSE InsertionSort(v, InsertAt(tosort, pi, InsertionPoint(v, tosort, pl, pi)),
                     pl, pr, pi + 1)

\* the for (;;) loop of the partition: pi moves up to an entry not less
\* than the pivot vp, pj down to an entry not greater, and the two are
\* swapped until they meet
\* the first entry after pi that is not less than the pivot vp
UpFrom(v, tosort, vp, pi) ==
  CHOOSE k \in (pi + 1)..Len(tosort) :
    /\ ~(v[tosort[k]] < vp)
    /\ \A m \in (pi + 1)..(k - 1) : v[tosort[m]] < vp

\* the last entry before pj that is not greater than the pivot vp
DownFrom(v, tosort, vp, pj) ==
  CHOOSE k \in 1..(pj - 1) :
    /\ ~(vp < v[tosort[k]])
    /\ \A m \in (k + 1)..(pj - 1) : vp < v[tosort[m]]

RECURSIVE PartitionLoop(_, _, _, _, _)
\* the two entries found are swapped unless they have met
PartitionStep(v, tosort, vp, i, j) ==
  IF i >= j THEN <<tosort, i>>
  ELSE PartitionLoop(v, Swap(tosort, i, j), vp, i, j)

PartitionLoop(v, tosort, vp, pi, pj) ==
  PartitionStep(v, tosort, vp, UpFrom(v, tosort, vp, pi), DownFrom(v, tosort, vp, pj))

\* if (v[tosort[j]] < v[tosort[i]]) swap the two entries
SwapIfLess(v, tosort, j, i) ==
  IF v[tosort[j]] < v[tosort[i]] THEN Swap(tosort, j, i) ELSE tosort

\* the median of the entries pl, pm and pr brought to pm
MedianOfThree(v, tosort, pl, pm, pr) ==
  SwapIfLess(v, SwapIfLess(v, SwapIfLess(v, tosort, pm, pl), pr, pm), pm, pl)

\* the partition of tosort[pl..pr] around the median at pm, which is put
\* aside at pr - 1: <<the entries, where the two scans met>>
Partition(v, tosort, pl, pm, pr) ==
  PartitionLoop(v, Swap(tosort, pm, pr - 1), v[tosort[pm]], pl, pr - 1)

RECURSIVE QuickSort(_, _, _, _)
\* the pivot goes to where the scans met, and the entries below and
\* above it are sorted
SortAround(v, tosort, pi, pl, pr) ==
  QuickSort(v, QuickSort(v, Swap(tosort, pi, pr - 1), pl, pi - 1), pi + 1, pr)

SortPartitions(v, loop, pl, pr) == SortAround(v, loop[1], loop[2], pl, pr)

\* aquicksort on tosort[pl..pr]
QuickSort(v, tosort, pl, pr) ==
  IF pr - pl > 16
  THEN SortPartitions(v, Partition(v, MedianOfThree(v, tosort, pl, pl + ((pr - pl) \div 2), pr),
                                   pl, pl + ((pr - pl) \div 2), pr),
                      pl, pr)
  ELSE InsertionSort(v, tosort, pl, pr, pl + 1)

\* v.argsort(kind='quicksort'): the positions of v in ascending order of
\* their values
argsort(v) == QuickSort(v, [i \in 1..Len(v) |-> i], 1, Len(v))

\* items[::-1]
Reversed(items) == Rows([j \in 1..Len(items) |-> items[Len(items) + 1 - j]])

\* the positions found in the reversed items, as positions of the items
\* and in reverse order
Backwards(indexer) ==
  Rows([k \in 1..Len(indexer) |-> Len(indexer) + 1 - indexer[Len(indexer) + 1 - k]])

\* pandas nargsort: for ascending=False the values are reversed, sorted
\* ascending, and the resulting positions reversed again
nargsort(items, ascending) ==
  IF ascending THEN argsort(items) ELSE Backwards(argsort(Reversed(items)))

\* the column by of df
Column(df, by) == Rows([i \in 1..Len(df) |-> df[i][by]])

\* df.take(indexer)
take(df, indexer) == Rows([k \in 1..Len(df) |-> df[indexer[k]]])

\* df.sort_values(by), ascending
sort_values_ascending(df, by) == take(df, nargsort(Column(df, by), TRUE))

\* df.sort_values(by, ascending=False)
sort_values(df, by) == take(df, nargsort(Column(df, by), FALSE))

\* for every float of xs, the number of floats of xs below it: two of
\* these numbers compare as the floats do
FloatOrder(xs) ==
  Rows([i \in 1..Len(xs) |-> Cardinality({j \in 1..Len(xs) : FLess(xs[j], xs[i])})])

\* idx[~mask] and np.nonzero(mask)[0] of nargsort: the positions of the
\* floats that are not nan, and of those that are
NonNaNPositions(xs) == SelectSeq([i \in 1..Len(xs) |-> i], LAMBDA i : ~FIsNaN(xs[i]))

NaNPositions(xs) == SelectSeq([i \in 1..Len(xs) |-> i], LAMBDA i : FIsNaN(xs[i]))

\* the entries of xs at the positions idx
At(xs, idx) == Rows([k \in 1..Len(idx) |-> xs[idx[k]]])

\* pandas nargsort on floats with na_position='last': the floats that are
\* not nan are sorted, and the positions of the nan follow in their order
nargsort_floats(xs, non_nan_idx, ascending) ==
  At(non_nan_idx, nargsort(FloatOrder(At(xs, non_nan_idx)), ascending)) \o NaNPositions(xs)

\* df.sort_values(by, ascending=False) on a column of floats
sort_float_values(df, by) ==
  take(df, nargsort_floats(Column(df, by), NonNaNPositions(Column(df, by)), FALSE))

\* the columns generate_rankings and the sub-scores read from a row
RequiredColumns ==
  {"Team", "Conference", "Experience", "Off_TO", "Def_TO", "Turnover_Margin",
   "AdjEM_Rank", "AdjEM", "AdjOE", "AdjDE", "AdjOE_Rank", "AdjDE_Rank"}

\* generate_rankings raises KeyError: a row lacks a column, or there is no
\* row, so that the results frame has no Final_Score column to sort by
GenerateRaises(d, columns) ==
  \/ Len(d) = 0
  \/ ~(RequiredColumns \subseteq columns)

\* the rows built by the loop of generate_rankings, before sorting
V3ResultRows(d, w) ==
  [i \in 1..Len(d) |->
     LET row == d[i]
         s == V3Scores(d, row)
     IN  [Team |-> row.Team,
          Conference |-> row.Conference,
          Final_Score |-> calculate_total_score(d, row, w),
          Experience |-> row.Experience,
          Off_TO_Pct |-> row.Off_TO, Def_TO_Pct |-> row.Def_TO,
          Turnover_Margin |-> row.Turnover_Margin,
          KenPom_Rank |-> row.AdjEM_Rank,
          AdjEM |-> row.AdjEM, AdjOE |-> row.AdjOE, AdjDE |-> row.AdjDE,
          AdjOE_Rank |-> row.AdjOE_Rank, AdjDE_Rank |-> row.AdjDE_Rank,
          defensive_rating_score |-> s.defensive_rating,
          offensive_rating_score |-> s.offensive_rating,
          recent_performance_score |-> s.recent_performance,
          experience_score |-> s.experience,
          turnover_margin_score |-> s.turnover_margin]]

\* range(len(df)): ranks counted from 0
AssignRankFromZero(df, i) == i - 1

\* df[rank_col] = range(1, len(df) + 1): the rank of the row at position i
AssignRank(df, i) == i

\* results_df['Final_Rank'] - results_df['KenPom_Rank']
RankChangeReversed(kenpom_rank, final_rank) == final_rank - kenpom_rank

\* results_df['KenPom_Rank'] - results_df['Final_Rank']
RankChange(kenpom_rank, final_rank) == kenpom_rank - final_rank

(***************************************************************************)
(* Final_Score is a float: the sum of five products of a float sub-score   *)
(* and a float weight.  Rows whose exact totals differ have float totals   *)
(* that differ the same way, but rows whose exact totals are equal can     *)
(* have float totals that differ in the last bits (59.599999999999994 and  *)
(* 59.6), and then the sort orders them by these.  rounding[i] stands for  *)
(* the last bits of the total of row i: among rows of equal exact total    *)
(* the row with the larger rounding has the larger float.                  *)
(***************************************************************************)
\* everything the float sub-scores of a row are computed from: rows that
\* agree on these have the same float Final_Score
FloatInputs(d, team_row) ==
  <<DefPercentile(d, team_row),
    team_row.AdjDE_Rank <= 10, team_row.AdjDE_Rank <= 25,
    OffPercentile(d, team_row),
    team_row.AdjOE_Rank <= 10, team_row.AdjOE_Rank <= 25,
    calculate_recent_performance(d, team_row.Team),
    calculate_experience(team_row),
    MarginPercentile(d, team_row),
    team_row.Turnover_Margin > Tenths(50), team_row.Turnover_Margin > Tenths(30),
    team_row.Turnover_Margin < Tenths(0 - 30)>>

\* the roundings the float totals of the rows of d can have: 0 for a row
\* whose exact total is shared only by rows computed from the same values,
\* the same for rows computed from the same values, and otherwise any
\* order of the rows of equal exact total
FinalScoreRoundings(d, w) ==
  LET n == Len(d)
      total == [i \in 1..n |-> calculate_total_score(d, d[i], w)]
      inputs == [i \in 1..n |-> FloatInputs(d, d[i])]
      open == {i \in 1..n :
                 \E j \in 1..n : total[j] = total[i] /\ inputs[j] # inputs[i]}
      orders == {g \in [open -> 0..(Cardinality(open) - 1)] :
                   \A i \in open :
                     /\ \A j \in open : inputs[j] = inputs[i] => g[j] = g[i]
                     /\ g[i] > 0 =>
                          \E j \in open : total[j] = total[i] /\ g[j] = g[i] - 1}
  IN  {[i \in 1..n |-> IF i \in open THEN g[i] ELSE 0] : g \in orders}

\* the result rows with the float Final_Score as a sort key: the exact
\* total, then the rounding
WithFloatScore(rows, rounding) ==
  [i \in 1..Len(rows) |->
     [f \in DOMAIN rows[i] \cup {"float_score"} |->
        IF f = "float_score"
        THEN rows[i].Final_Score * (Len(rows) + 1) + rounding[i]
        ELSE rows[i][f]]]

\* sort_values('Final_Score', ascending=False) on the float totals
sort_by_final_score(rows, rounding) ==
  LET sorted == sort_values(WithFloatScore(rows, rounding), "float_score")
  IN  [i \in 1..Len(sorted) |->
         [f \in DOMAIN sorted[i] \ {"float_score"} |-> sorted[i][f]]]

\* generate_rankings with the rank delta taken against ranks counted from 0
generate_rankings_delta_from_zero(d, w, rounding) ==
  LET sorted == sort_by_final_score(V3ResultRows(d, w), rounding)
  IN  [i \in 1..Len(sorted) |->
         [f \in (DOMAIN sorted[i]) \cup {"Final_Rank", "Rank_Change"} |->
            IF f = "Final_Rank" THEN AssignRank(sorted, i)
            ELSE IF f = "Rank_Change"
                 THEN RankChange(sorted[i].KenPom_Rank, AssignRank(sorted, i) - 1)
            ELSE sorted[i][f]]]

\* generate_rankings: the result rows sorted by Final_Score, with Final_Rank
\* and Rank_Change
generate_rankings(d, w, rounding) ==
  LET sorted == sort_by_final_score(V3ResultRows(d, w), rounding)
  IN  [i \in 1..Len(sorted) |->
         [f \in (DOMAIN sorted[i]) \cup {"Final_Rank", "Rank_Change"} |->
            IF f = "Final_Rank" THEN AssignRank(sorted, i)
            ELSE IF f = "Rank_Change"
                 THEN RankChange(sorted[i].KenPom_Rank, AssignRank(sorted, i))
            ELSE sorted[i][f]]]

(***************************************************************************)
(* SWISH calculators.  A cell of the player table is a whole number in the *)
(* unit of its column (SwishUnits): per-game averages, PER, win shares,    *)
(* VORP, MVP shares and TOV% are in tenths, shooting percentages in        *)
(* thousandths, counts in ones.  The calculators read a cell as the float  *)
(* nearest to its decimal value and compute every score in floats.  A      *)
(* column the file does not have is NA in every row, and an empty cell of  *)
(* a column the file has is NaN.                                           *)
(***************************************************************************)
NA == 0 - 1

\* Python's `fragment in text` on two strings
Contains(text, fragment) ==
  \E i \in 1..(Len(text) - Len(fragment) + 1) :
    SubSeq(text, i, i + Len(fragment) - 1) = fragment

EraNames == <<"pre_merger", "early_modern", "golden_age", "post_jordan", "modern">>

\* the parts of one unit in which the cells of a column are given
SwishUnits ==
  [career_per |-> 10, peak_ppg |-> 10, career_ppg |-> 10, career_rpg |-> 10,
   career_apg |-> 10, career_games |-> 1, career_ws |-> 10, career_vorp |-> 10,
   seasons_played |-> 1, career_mpg |-> 10, career_ts_pct |-> 1000,
   career_fg_pct |-> 1000, career_ft_pct |-> 1000, career_tov_pct |-> 10,
   career_spg |-> 10, career_bpg |-> 10, career_stl_per_g |-> 10,
   career_blk_per_g |-> 10, career_drb_per_g |-> 10, playoff_pts_per_g |-> 10,
   playoff_g |-> 1, seasons_30ppg |-> 1, seasons_25ppg |-> 1,
   championships |-> 1, finals_mvp |-> 1, mvp |-> 1, mvp_shares |-> 10,
   all_nba_first |-> 1, all_nba_second |-> 1, all_nba_third |-> 1,
   all_star |-> 1, dpoy |-> 1, all_defensive_first |-> 1,
   all_defensive_second |-> 1, steals_leader |-> 1, blocks_leader |-> 1,
   scoring_titles |-> 1]

\* the float of a weight literal of p hundredths (0.20, 0.35, ...)
Percent == [p \in 0..100 |-> FromRatio(p, 100)]

\* w[1] * x[1] + ... + w[k] * x[k] as Python adds it, from the left; the
\* weights are in percent
RECURSIVE FDotTo(_, _, _)
FDotTo(w, x, k) ==
  IF k = 1 THEN FMul(Percent[w[1]], x[1])
  ELSE FAdd(FDotTo(w, x, k - 1), FMul(Percent[w[k]], x[k]))

FDot(w, x) == FDotTo(w, x, Len(w))

\* min(100, x)
Capped(x) == FMin(FromInt(100), x)

\* min(100, max(0, x))
Clamped(x) == FMin(FromInt(100), FMax(FromInt(0), x))

\* min(100, (x / target) * 100)
Share(x, target) == Capped(FMul(FDiv(x, target), FromInt(100)))

\* ---- swish_score_calculator.py ----
\* self.eras
V1Eras ==
  [pre_merger |-> <<1946, 1975>>, early_modern |-> <<1976, 1984>>,
   golden_age |-> <<1985, 1999>>, post_jordan |-> <<2000, 2009>>,
   modern |-> <<2010, 2024>>]

\* self.era_context (avg_ppg, avg_rpg, avg_apg in tenths, avg_ts_pct in thousandths)
V1EraContext ==
  [pre_merger   |-> [avg_ppg |-> 250, avg_rpg |-> 120, avg_apg |-> 45, avg_ts_pct |-> 480],
   early_modern |-> [avg_ppg |-> 220, avg_rpg |-> 100, avg_apg |-> 50, avg_ts_pct |-> 520],
   golden_age   |-> [avg_ppg |-> 210, avg_rpg |-> 90,  avg_apg |-> 50, avg_ts_pct |-> 530],
   post_jordan  |-> [avg_ppg |-> 190, avg_rpg |-> 85,  avg_apg |-> 50, avg_ts_pct |-> 520],
   modern       |-> [avg_ppg |-> 200, avg_rpg |-> 80,  avg_apg |-> 55, avg_ts_pct |-> 550]]

V1PreMergerNames ==
  {"Bill Russell", "Wilt Chamberlain", "Jerry West", "Oscar Robertson", "Elgin Baylor"}
V1EarlyModernNames == {"Magic Johnson", "Larry Bird", "Julius Erving", "Moses Malone"}
V1GoldenAgeNames ==
  {"Michael Jordan", "Hakeem Olajuwon", "Karl Malone", "David Robinson"}
V1PostJordanNames == {"Kobe Bryant", "Tim Duncan", "Shaquille O'Neal", "Allen Iverson"}

\* the component weights inside each sub-score, in percent
V1InnerWeights ==
  [peak_dominance |-> <<40, 30, 30>>,
   career_value |-> <<40, 40, 20>>,
   championship_impact |-> <<35, 35, 20, 10>>,
   individual_honors |-> <<30, 25, 15, 15, 15>>,
   statistical_excellence |-> <<40, 30, 30>>,
   offensive_excellence |-> <<50, 25, 25>>,
   defensive_excellence |-> <<50, 30, 20>>,
   efficiency_metrics |-> <<50, 35, 15>>,
   longevity |-> <<40, 40, 20>>]

\* start_year: NA when the column is absent (player.get returns None),
\* NaN when the cell is empty, otherwise the year
NaN == 0 - 2

\* the float of a cell of the column, nan for an empty cell
Cell(value, column) ==
  IF value = NaN THEN FNaN ELSE FromRatio(value, SwishUnits[column])

\* player.get(column, default)
Get(player, column, default) ==
  IF player[column] = NA THEN default ELSE Cell(player[column], column)

\* player.get(column, None) is None
IsNone(player, column) == player[column] = NA

get_player_era(player) ==
  IF player.start_year = NA THEN
    (IF player.name \in V1PreMergerNames THEN "pre_merger"
     ELSE IF player.name \in V1EarlyModernNames THEN "early_modern"
     ELSE IF player.name \in V1GoldenAgeNames THEN "golden_age"
     ELSE IF player.name \in V1PostJordanNames THEN "post_jordan"
     ELSE "modern")
  ELSE
    LET hits == {k \in 1..Len(EraNames) :
                   /\ player.start_year # NaN
                   /\ V1Eras[EraNames[k]][1] <= player.start_year
                   /\ player.start_year <= V1Eras[EraNames[k]][2]}
    IN  IF hits = {} THEN "modern"
        ELSE EraNames[CHOOSE k \in hits : \A j \in hits : k <= j]

\* (player.get('career_ws', 0) / games) * 48 if games > 0 else 0
ws_per_48(career_ws, games) ==
  IF FLess(FZero, games) THEN FMul(FDiv(career_ws, games), FromInt(48)) ELSE FZero

\* calculate_peak_dominance without the min(100, ...) around the PER and
\* scoring parts
V1PeakDominanceUncapped(player) ==
  LET per_score ==
        FMul(FDiv(Get(player, "career_per", FromInt(15)), FromInt(31)), FromInt(100))
      ppg_score == FMul(FDiv(Get(player, "peak_ppg", FZero), FromInt(35)), FromInt(100))
      ws48_score == Share(ws_per_48(Get(player, "career_ws", FZero),
                                    Get(player, "career_games", FromInt(1))),
                          FromRatio(25, 100))
  IN  FDot(V1InnerWeights.peak_dominance, <<per_score, ppg_score, ws48_score>>)

V1PeakDominance(player) ==
  LET per_score == Share(Get(player, "career_per", FromInt(15)), FromInt(31))
      ppg_score == Share(Get(player, "peak_ppg", FZero), FromInt(35))
      ws48_score == Share(ws_per_48(Get(player, "career_ws", FZero),
                                    Get(player, "career_games", FromInt(1))),
                          FromRatio(25, 100))
  IN  FDot(V1InnerWeights.peak_dominance, <<per_score, ppg_score, ws48_score>>)

V1CareerValue(player) ==
  LET ws_score == Share(Get(player, "career_ws", FZero), FromInt(250))
      vorp_score == Share(Get(player, "career_vorp", FZero), FromInt(100))
      \* (ppg / 30.0) * 40 + (rpg / 10.0) * 30 + (apg / 8.0) * 30
      stats_score ==
        Capped(FAdd(FAdd(FMul(FDiv(Get(player, "career_ppg", FZero), FromInt(30)),
                              FromInt(40)),
                         FMul(FDiv(Get(player, "career_rpg", FZero), FromInt(10)),
                              FromInt(30))),
                    FMul(FDiv(Get(player, "career_apg", FZero), FromInt(8)),
                         FromInt(30))))
  IN  FDot(V1InnerWeights.career_value, <<ws_score, vorp_score, stats_score>>)

\* (playoff_ppg / career_ppg) if career_ppg > 0 else 1.0
playoff_elevation(playoff_ppg, career_ppg) ==
  IF FLess(FZero, career_ppg) THEN FDiv(playoff_ppg, career_ppg) ELSE FromInt(1)

V1ChampionshipImpact(player) ==
  LET rings_score == Share(Get(player, "championships", FZero), FromInt(6))
      fmvp_score == Share(Get(player, "finals_mvp", FZero), FromInt(4))
      elevation_score ==
        Capped(FMul(playoff_elevation(Get(player, "playoff_pts_per_g", FZero),
                                      Get(player, "career_ppg", FromInt(1))),
                    FromInt(80)))
      playoff_exp_score == Share(Get(player, "playoff_g", FZero), FromInt(200))
  IN  FDot(V1InnerWeights.championship_impact,
           <<rings_score, fmvp_score, elevation_score, playoff_exp_score>>)

\* (first_team * 5) + (second_team * 3) + (third_team * 1)
all_nba_points(player) ==
  FAdd(FAdd(FMul(Get(player, "all_nba_first", FZero), FromInt(5)),
            FMul(Get(player, "all_nba_second", FZero), FromInt(3))),
       FMul(Get(player, "all_nba_third", FZero), FromInt(1)))

\* (dpoy * a) + (all_def_first * b) + (all_def_second * c), with c in
\* tenths
defensive_points(player, a, b, c) ==
  FAdd(FAdd(FMul(Get(player, "dpoy", FZero), FromInt(a)),
            FMul(Get(player, "all_defensive_first", FZero), FromInt(b))),
       FMul(Get(player, "all_defensive_second", FZero), FromRatio(c, 10)))

V1IndividualHonors(player) ==
  LET mvp_score == Share(Get(player, "mvp", FZero), FromInt(5))
      all_nba_score == Share(all_nba_points(player), FromInt(60))
      all_star_score == Share(Get(player, "all_star", FZero), FromInt(15))
      defensive_score == Share(defensive_points(player, 10, 3, 15), FromInt(40))
      scoring_title_score ==
        Share(FMul(Get(player, "scoring_titles", FZero), FromInt(4)), FromInt(40))
  IN  FDot(V1InnerWeights.individual_honors,
           <<mvp_score, all_nba_score, all_star_score, defensive_score,
             scoring_title_score>>)

\* min(100, max(0, (stat / era_avg - 0.5) * 100)); the era averages are
\* all above 0
vs_era_score(stat, era_avg) ==
  Clamped(FMul(FSub(FDiv(stat, era_avg), FromRatio(5, 10)), FromInt(100)))

calculate_offensive_excellence(player, era_stats) ==
  LET ppg_score == vs_era_score(Get(player, "career_ppg", FZero),
                                FromRatio(era_stats.avg_ppg, 10))
      apg_score == vs_era_score(Get(player, "career_apg", FZero),
                                FromRatio(era_stats.avg_apg, 10))
      peak_vs_era == FDiv(Get(player, "peak_ppg", FZero), FromRatio(era_stats.avg_ppg, 10))
      peak_score ==
        Clamped(FAdd(FAdd(FMul(FSub(peak_vs_era, FromInt(1)), FromInt(50)),
                          FMul(Get(player, "seasons_30ppg", FZero), FromInt(8))),
                     FMul(Get(player, "seasons_25ppg", FZero), FromInt(3))))
  IN  FDot(V1InnerWeights.offensive_excellence, <<ppg_score, apg_score, peak_score>>)

\* 2.0 for career_rpg < 5.0, 1.5 for career_rpg < 8.0, else 1.0
position_factor(career_rpg) ==
  IF FLess(career_rpg, FromInt(5)) THEN FromInt(2)
  ELSE IF FLess(career_rpg, FromInt(8)) THEN FromRatio(15, 10)
  ELSE FromInt(1)

\* 50 for a pre-merger player without steals and blocks, else
\* min(100, (spg / 2.0) * 50 + (bpg / 2.5) * 50)
stocks_score(player_era, spg, bpg) ==
  IF player_era = "pre_merger" /\ spg = FZero /\ bpg = FZero THEN FromInt(50)
  ELSE Capped(FAdd(FMul(FDiv(spg, FromInt(2)), FromInt(50)),
                   FMul(FDiv(bpg, FromRatio(25, 10)), FromInt(50))))

calculate_defensive_excellence(player, era_stats) ==
  LET award_score == Share(defensive_points(player, 15, 5, 25), FromInt(50))
      rpg_vs_era == FDiv(Get(player, "career_rpg", FZero), FromRatio(era_stats.avg_rpg, 10))
      rebound_score ==
        Clamped(FMul(FMul(FSub(rpg_vs_era, FromRatio(5, 10)), FromInt(100)),
                     position_factor(Get(player, "career_rpg", FZero))))
  IN  FDot(V1InnerWeights.defensive_excellence,
           <<award_score, rebound_score,
             stocks_score(get_player_era(player), Get(player, "career_spg", FZero),
                          Get(player, "career_bpg", FZero))>>)

\* `if value:` on player.get(column, None): None and 0 are false, nan is
\* true
Truthy(player, column) == ~IsNone(player, column) /\ player[column] # 0

\* min(100, max(0, (ts_vs_era - 0.85) * 100 / 0.3))
ts_score(ts_vs_era) ==
  Clamped(FDiv(FMul(FSub(ts_vs_era, FromRatio(85, 100)), FromInt(100)), FromRatio(3, 10)))

\* fg_pct + (0.5 * ft_pct * 0.2)
estimated_ts(fg_pct, ft_pct) ==
  FAdd(fg_pct, FMul(FMul(FromRatio(5, 10), ft_pct), FromRatio(2, 10)))

calculate_efficiency_metrics(player, era_stats) ==
  LET per_score ==
        Clamped(FMul(FDiv(FSub(Get(player, "career_per", FromInt(15)), FromInt(15)),
                          FromInt(10)),
                     FromInt(100)))
      ts_vs_era ==
        IF Truthy(player, "career_ts_pct")
        THEN FDiv(Cell(player.career_ts_pct, "career_ts_pct"),
                  FromRatio(era_stats.avg_ts_pct, 1000))
        ELSE FDiv(estimated_ts(Get(player, "career_fg_pct", FromRatio(450, 1000)),
                               Get(player, "career_ft_pct", FromRatio(750, 1000))),
                  FromRatio(era_stats.avg_ts_pct, 1000))
      tov_score ==
        IF Truthy(player, "career_tov_pct")
        THEN Clamped(FMul(FSub(FromInt(20), Cell(player.career_tov_pct, "career_tov_pct")),
                          FromInt(5)))
        ELSE FromInt(50)
  IN  FDot(V1InnerWeights.efficiency_metrics, <<per_score, ts_score(ts_vs_era), tov_score>>)

V1StatisticalExcellence(player) ==
  FDot(V1InnerWeights.statistical_excellence,
       <<calculate_offensive_excellence(player, V1EraContext[get_player_era(player)]),
         calculate_defensive_excellence(player, V1EraContext[get_player_era(player)]),
         calculate_efficiency_metrics(player, V1EraContext[get_player_era(player)])>>)

\* min(100, (all_stars / seasons * 100) if seasons > 0 else 0)
late_career_score(all_stars, seasons) ==
  Capped(IF FLess(FZero, seasons) THEN FMul(FDiv(all_stars, seasons), FromInt(100))
         ELSE FZero)

V1Longevity(player) ==
  LET seasons_score == Share(Get(player, "seasons_played", FZero), FromInt(20))
      games_score == Share(Get(player, "career_games", FZero), FromInt(1400))
  IN  FDot(V1InnerWeights.longevity,
           <<seasons_score, games_score,
             late_career_score(Get(player, "all_star", FZero),
                               Get(player, "seasons_played", FZero))>>)

\* the weights of the final sum, in percent
V1SwishWeights ==
  [peak_dominance_score |-> 20, career_value_score |-> 20,
   individual_honors_score |-> 20, championship_impact_score |-> 15,
   statistical_excellence_score |-> 15, longevity_score |-> 10]

SwishComponents == DOMAIN V1SwishWeights

\* the components in the order of the final sum of both calculators
SwishSumOrder ==
  <<"peak_dominance_score", "career_value_score", "individual_honors_score",
    "championship_impact_score", "statistical_excellence_score", "longevity_score">>

\* 0.20 * peak_dominance_score + 0.20 * career_value_score + ... with the
\* weights w, in percent
swish_score(row, w) ==
  FDot([k \in 1..Len(SwishSumOrder) |-> w[SwishSumOrder[k]]],
       [k \in 1..Len(SwishSumOrder) |-> row[SwishSumOrder[k]]])

V1Components(player) ==
  [peak_dominance_score |-> V1PeakDominance(player),
   career_value_score |-> V1CareerValue(player),
   championship_impact_score |-> V1ChampionshipImpact(player),
   individual_honors_score |-> V1IndividualHonors(player),
   statistical_excellence_score |-> V1StatisticalExcellence(player),
   longevity_score |-> V1Longevity(player)]

\* ranks counted down from len(df) to 1
AddRanksDescending(sorted, rank_col) ==
  [i \in 1..Len(sorted) |->
     Merge(sorted[i], [c \in {rank_col} |-> Len(sorted) + 1 - AssignRank(sorted, i)])]

\* df[rank_col] = range(1, len(df) + 1) on the sorted frame
AddRanks(sorted, rank_col) ==
  [i \in 1..Len(sorted) |-> Merge(sorted[i], [c \in {rank_col} |-> AssignRank(sorted, i)])]

\* ---- swish_score_calculator_v2.py ----
\* self.era_stats (tenths)
V2EraStats ==
  [pre_merger   |-> [avg_ppg |-> 198, avg_rpg |-> 59, avg_apg |-> 32, avg_stl |-> 12, avg_blk |-> 8],
   early_modern |-> [avg_ppg |-> 184, avg_rpg |-> 52, avg_apg |-> 38, avg_stl |-> 15, avg_blk |-> 7],
   golden_age   |-> [avg_ppg |-> 168, avg_rpg |-> 48, avg_apg |-> 35, avg_stl |-> 14, avg_blk |-> 6],
   post_jordan  |-> [avg_ppg |-> 152, avg_rpg |-> 44, avg_apg |-> 33, avg_stl |-> 13, avg_blk |-> 5],
   modern       |-> [avg_ppg |-> 165, avg_rpg |-> 45, avg_apg |-> 36, avg_stl |-> 12, avg_blk |-> 5]]

\* the component weights inside each sub-score, in percent
V2InnerWeights ==
  [peak_dominance |-> <<30, 30, 25, 15>>,
   career_value |-> <<40, 35, 25>>,
   career_stats_C |-> <<35, 45, 20>>,
   career_stats_G |-> <<40, 20, 40>>,
   career_stats_F |-> <<40, 35, 25>>,
   championship_impact |-> <<35, 30, 20, 15>>,
   individual_honors |-> <<25, 25, 15, 20, 15>>,
   statistical_excellence |-> <<25, 25, 25, 25>>,
   defensive_stat |-> <<40, 40, 20>>,
   longevity |-> <<30, 30, 25, 15>>]

\* the name fragments of assign_player_eras, in the order they are tried
V2EraFragments ==
  << {"Russell", "Chamberlain", "Robertson", "West", "Baylor"},
     {"Kareem", "Erving", "Moses"},
     {"Jordan", "Magic", "Bird", "Hakeem", "Barkley", "Malone", "Stockton"},
     {"Duncan", "Kobe", "Shaq", "Garnett", "Dirk", "Nash", "Iverson"},
     {"LeBron", "Durant", "Curry", "Giannis", "Kawhi", "Harden", "Chris Paul"} >>

AllFragments == UNION {V2EraFragments[k] : k \in 1..Len(V2EraFragments)}

\* the fragments that occur in a name (Python's `n in name`)
FragmentsOf(name) == {n \in AllFragments : Contains(name, n)}

assign_player_eras(row) ==
  IF row.career_start \in {NA, NaN} \/ row.career_end \in {NA, NaN} THEN
    LET hits == {k \in 1..Len(V2EraFragments) :
                   FragmentsOf(row.name) \cap V2EraFragments[k] # {}}
    IN  IF hits = {} THEN "modern"
        ELSE EraNames[CHOOSE k \in hits : \A j \in hits : k <= j]
  ELSE
    \* twice the career midpoint
    LET career_mid2 == row.career_start + row.career_end
    IN  IF career_mid2 < 2 * 1976 THEN "pre_merger"
        ELSE IF career_mid2 < 2 * 1985 THEN "early_modern"
        ELSE IF career_mid2 < 2 * 2000 THEN "golden_age"
        ELSE IF career_mid2 < 2 * 2010 THEN "post_jordan"
        ELSE "modern"

\* max(0, min(100, (player_stat / era_avg - 1) * factor)); the era
\* averages are all above 0
above_era_score(player_stat, era_avg, factor) ==
  FMax(FromInt(0),
       Capped(FMul(FSub(FDiv(player_stat, era_avg), FromInt(1)), FromInt(factor))))

\* stat_name is "ppg", "rpg", "apg", "stl" or "blk"
calculate_era_adjusted_stat(player_stat, stat_name, player_era) ==
  IF FIsNaN(player_stat) \/ player_stat = FZero THEN FromInt(0)
  ELSE above_era_score(player_stat,
                       FromRatio(V2EraStats[player_era]["avg_" \o stat_name], 10),
                       IF stat_name \in {"ppg", "rpg", "apg"} THEN 150 ELSE 100)

\* min(100, ((per - 15) / points) * 100)
per_above_average(per, points) ==
  Capped(FMul(FDiv(FSub(per, FromInt(15)), FromInt(points)), FromInt(100)))

V2PeakDominance(player) ==
  LET peak_ppg_adjusted ==
        calculate_era_adjusted_stat(Get(player, "peak_ppg", FZero), "ppg", player.era)
      per_score == per_above_average(Get(player, "career_per", FromInt(15)), 16)
      ws48_score == Share(ws_per_48(Get(player, "career_ws", FZero),
                                    Get(player, "career_games", FromInt(1))),
                          FromRatio(250, 1000))
      mvp_share_score == Share(Get(player, "mvp_shares", FZero), FromInt(5))
  IN  FDot(V2InnerWeights.peak_dominance,
           <<peak_ppg_adjusted, per_score, ws48_score, mvp_share_score>>)

\* the weights of the era-adjusted points, rebounds and assists of a
\* position
career_stats_weights(position) ==
  IF position \in {"C", "F-C", "C-F"} THEN V2InnerWeights.career_stats_C
  ELSE IF position \in {"G", "G-F", "F-G"} THEN V2InnerWeights.career_stats_G
  ELSE V2InnerWeights.career_stats_F

V2CareerValue(player) ==
  LET ws_score == Share(Get(player, "career_ws", FZero), FromInt(250))
      vorp_score == Share(Get(player, "career_vorp", FZero), FromInt(100))
      ppg_adjusted ==
        calculate_era_adjusted_stat(Get(player, "career_ppg", FZero), "ppg", player.era)
      rpg_adjusted ==
        calculate_era_adjusted_stat(Get(player, "career_rpg", FZero), "rpg", player.era)
      apg_adjusted ==
        calculate_era_adjusted_stat(Get(player, "career_apg", FZero), "apg", player.era)
      stats_score == FDot(career_stats_weights(player.primary_position),
                          <<ppg_adjusted, rpg_adjusted, apg_adjusted>>)
  IN  FDot(V2InnerWeights.career_value, <<ws_score, vorp_score, stats_score>>)

\* era_multiplier, in tenths
V2RingMultiplier ==
  [pre_merger |-> 7, early_modern |-> 8, golden_age |-> 9, post_jordan |-> 10,
   modern |-> 10]

\* 0, or min(100, (playoff_elevation - 1) * 500) if playoff_elevation > 1.10
elevation_bonus(elevation) ==
  IF FLess(FromRatio(110, 100), elevation)
  THEN Capped(FMul(FSub(elevation, FromInt(1)), FromInt(500)))
  ELSE FromInt(0)

V2ChampionshipImpact(player) ==
  LET adjusted_rings == FMul(Get(player, "championships", FZero),
                             FromRatio(V2RingMultiplier[player.era], 10))
      rings_score == Share(adjusted_rings, FromInt(5))
      fmvp_score == Share(Get(player, "finals_mvp", FZero), FromInt(3))
      elevation_score ==
        elevation_bonus(playoff_elevation(Get(player, "playoff_pts_per_g", FZero),
                                          Get(player, "career_ppg", FromInt(1))))
      playoff_exp_score == Share(Get(player, "playoff_g", FZero), FromInt(220))
  IN  FDot(V2InnerWeights.championship_impact,
           <<rings_score, fmvp_score, elevation_score, playoff_exp_score>>)

V2StarTarget ==
  [pre_merger |-> 10, early_modern |-> 12, golden_age |-> 13, post_jordan |-> 14,
   modern |-> 15]

\* (dpoy * 15) + (all_def_first * 5) + (all_def_second * 2)
\*   + (steals_titles * 3) + (blocks_titles * 3)
V2DefensivePoints(player) ==
  FAdd(FAdd(defensive_points(player, 15, 5, 20),
            FMul(Get(player, "steals_leader", FZero), FromInt(3))),
       FMul(Get(player, "blocks_leader", FZero), FromInt(3)))

V2IndividualHonors(player) ==
  LET mvp_score == Share(Get(player, "mvp", FZero), FromInt(4))
      all_nba_score == Share(all_nba_points(player), FromInt(50))
      all_star_score ==
        Share(Get(player, "all_star", FZero), FromInt(V2StarTarget[player.era]))
      defensive_score == Share(V2DefensivePoints(player), FromInt(50))
      scoring_score == Share(Get(player, "scoring_titles", FZero), FromInt(7))
  IN  FDot(V2InnerWeights.individual_honors,
           <<mvp_score, all_nba_score, all_star_score, defensive_score,
             scoring_score>>)

\* era_avg_ts, in thousandths
V2EraAvgTs ==
  [pre_merger |-> 470, early_modern |-> 520, golden_age |-> 535, post_jordan |-> 525,
   modern |-> 560]

\* tenths
V2DrbTarget == [C |-> 70, F |-> 50, G |-> 30]

\* 'C' if 'C' in position else 'G' if 'G' in position else 'F'
pos_category(position) ==
  IF Contains(position, "C") THEN "C" ELSE IF Contains(position, "G") THEN "G" ELSE "F"

\* min(100, max(0, 50 + (ts_pct - era_avg_ts) * 1000))
V2EfficiencyScore(ts_pct, era_avg_ts) ==
  Clamped(FAdd(FromInt(50), FMul(FSub(ts_pct, era_avg_ts), FromInt(1000))))

V2StatisticalExcellence(player) ==
  LET ppg_score ==
        calculate_era_adjusted_stat(Get(player, "career_ppg", FZero), "ppg", player.era)
      efficiency_score ==
        V2EfficiencyScore(Get(player, "career_ts_pct", FromRatio(500, 1000)),
                          FromRatio(V2EraAvgTs[player.era], 1000))
      stl_score ==
        calculate_era_adjusted_stat(Get(player, "career_stl_per_g", FZero), "stl", player.era)
      blk_score ==
        calculate_era_adjusted_stat(Get(player, "career_blk_per_g", FZero), "blk", player.era)
      drb_score ==
        Share(Get(player, "career_drb_per_g", FZero),
              FromRatio(V2DrbTarget[pos_category(player.primary_position)], 10))
      defensive_stat_score ==
        FDot(V2InnerWeights.defensive_stat, <<stl_score, blk_score, drb_score>>)
      per_score == per_above_average(Get(player, "career_per", FromInt(15)), 12)
  IN  FDot(V2InnerWeights.statistical_excellence,
           <<ppg_score, efficiency_score, defensive_stat_score, per_score>>)

\* min(100, quality_ratio * 120), quality_ratio being
\* (all_stars / seasons) if seasons > 0 else 0
quality_score(all_stars, seasons) ==
  Capped(FMul(IF FLess(FZero, seasons) THEN FDiv(all_stars, seasons) ELSE FZero,
              FromInt(120)))

V2Longevity(player) ==
  LET seasons_score == Share(Get(player, "seasons_played", FZero), FromInt(18))
      games_score == Share(Get(player, "career_games", FZero), FromInt(1300))
      mpg_score == Share(Get(player, "career_mpg", FZero), FromInt(36))
  IN  FDot(V2InnerWeights.longevity,
           <<seasons_score, games_score,
             quality_score(Get(player, "all_star", FZero),
                           Get(player, "seasons_played", FZero)),
             mpg_score>>)

\* the v2 weights with championship_impact raised to 20% and
\* individual_honors left at the 20% of v1
V2SwishWeightsStale ==
  [peak_dominance_score |-> 20, career_value_score |-> 20,
   individual_honors_score |-> 20, championship_impact_score |-> 20,
   statistical_excellence_score |-> 15, longevity_score |-> 10]

V2SwishWeights ==
  [peak_dominance_score |-> 20, career_value_score |-> 20,
   individual_honors_score |-> 15, championship_impact_score |-> 20,
   statistical_excellence_score |-> 15, longevity_score |-> 10]

V2Components(player) ==
  [peak_dominance_score |-> V2PeakDominance(player),
   career_value_score |-> V2CareerValue(player),
   championship_impact_score |-> V2ChampionshipImpact(player),
   individual_honors_score |-> V2IndividualHonors(player),
   statistical_excellence_score |-> V2StatisticalExcellence(player),
   longevity_score |-> V2Longevity(player)]

\* SwishScoreCalculatorV2.__init__: read the table and add the era column
V2Construct(rows) ==
  [i \in 1..Len(rows) |-> Merge(rows[i], [era |-> assign_player_eras(rows[i])])]

(***************************************************************************)
(* Input tables of the SWISH calculators                                   *)
(***************************************************************************)
MaxPlayers == 2

Identities ==
  << [name |-> "Bill Russell", start_year |-> 1957, career_start |-> NaN,
      career_end |-> NaN],
     [name |-> "Michael Jordan", start_year |-> 1984, career_start |-> 1984,
      career_end |-> 2003],
     [name |-> "Role Player", start_year |-> NaN, career_start |-> NaN,
      career_end |-> NaN] >>

Production ==
  << [career_per |-> 0, peak_ppg |-> 0, career_ppg |-> 0, career_rpg |-> 0,
      career_apg |-> 0, career_games |-> 0, career_ws |-> 0, career_vorp |-> 0,
      seasons_played |-> 0, career_mpg |-> 0, career_ts_pct |-> 0,
      career_fg_pct |-> 0, career_ft_pct |-> 0, career_tov_pct |-> 0,
      career_spg |-> 0, career_bpg |-> 0, career_stl_per_g |-> 0,
      career_blk_per_g |-> 0, career_drb_per_g |-> 0, playoff_pts_per_g |-> 0,
      playoff_g |-> 0, seasons_30ppg |-> 0, seasons_25ppg |-> 0,
      primary_position |-> "F"],
     [career_per |-> 120, peak_ppg |-> 140, career_ppg |-> 90, career_rpg |-> 40,
      career_apg |-> 20, career_games |-> 800, career_ws |-> 10, career_vorp |-> 50,
      seasons_played |-> 12, career_mpg |-> 240, career_ts_pct |-> 520,
      career_fg_pct |-> 440, career_ft_pct |-> 750, career_tov_pct |-> 140,
      career_spg |-> 8, career_bpg |-> 3, career_stl_per_g |-> 8,
      career_blk_per_g |-> 3, career_drb_per_g |-> 30, playoff_pts_per_g |-> 80,
      playoff_g |-> 60, seasons_30ppg |-> 0, seasons_25ppg |-> 0,
      primary_position |-> "G"],
     [career_per |-> 279, peak_ppg |-> 371, career_ppg |-> 301, career_rpg |-> 62,
      career_apg |-> 53, career_games |-> 1072, career_ws |-> 2140,
      career_vorp |-> 1164, seasons_played |-> 15, career_mpg |-> 383,
      career_ts_pct |-> 569, career_fg_pct |-> 497, career_ft_pct |-> 835,
      career_tov_pct |-> 93, career_spg |-> 23, career_bpg |-> 8,
      career_stl_per_g |-> 23, career_blk_per_g |-> 8, career_drb_per_g |-> 47,
      playoff_pts_per_g |-> 334, playoff_g |-> 179, seasons_30ppg |-> 8,
      seasons_25ppg |-> 12, primary_position |-> "G-F"],
     [career_per |-> 400, peak_ppg |-> 504, career_ppg |-> 450, career_rpg |-> 250,
      career_apg |-> 150, career_games |-> 1700, career_ws |-> 3000,
      career_vorp |-> 1500, seasons_played |-> 22, career_mpg |-> 480,
      career_ts_pct |-> NA, career_fg_pct |-> 680, career_ft_pct |-> 950,
      career_tov_pct |-> NA, career_spg |-> 40, career_bpg |-> 50,
      career_stl_per_g |-> 40, career_blk_per_g |-> 50, career_drb_per_g |-> 150,
      playoff_pts_per_g |-> 500, playoff_g |-> 300, seasons_30ppg |-> 12,
      seasons_25ppg |-> 20, primary_position |-> "C"] >>

Honors ==
  << [championships |-> 0, finals_mvp |-> 0, mvp |-> 0, mvp_shares |-> 0,
      all_nba_first |-> 0, all_nba_second |-> 0, all_nba_third |-> 0,
      all_star |-> 0, dpoy |-> 0, all_defensive_first |-> 0,
      all_defensive_second |-> 0, steals_leader |-> 0, blocks_leader |-> 0,
      scoring_titles |-> 0],
     [championships |-> 2, finals_mvp |-> 1, mvp |-> 1, mvp_shares |-> 15,
      all_nba_first |-> 3, all_nba_second |-> 2, all_nba_third |-> 1,
      all_star |-> 6, dpoy |-> 0, all_defensive_first |-> 1,
      all_defensive_second |-> 1, steals_leader |-> 0, blocks_leader |-> 0,
      scoring_titles |-> 1],
     [championships |-> 11, finals_mvp |-> 6, mvp |-> 6, mvp_shares |-> 80,
      all_nba_first |-> 13, all_nba_second |-> 3, all_nba_third |-> 2,
      all_star |-> 19, dpoy |-> 4, all_defensive_first |-> 9,
      all_defensive_second |-> 3, steals_leader |-> 3, blocks_leader |-> 4,
      scoring_titles |-> 10] >>

PlayerKinds ==
  {k \in (1..Len(Identities)) \X (1..Len(Production)) \X (1..Len(Honors)) :
     (k[2] + k[3]) % 3 = 0}

MkPlayer(k) == Merge(Merge(Identities[k[1]], Production[k[2]]), Honors[k[3]])

\* pd.read_csv of the rows of a file: a column that some row fills is a
\* column of the table, and its cell is nan in a row that leaves it empty
read_csv(rows) ==
  [i \in 1..Len(rows) |->
     [c \in DOMAIN rows[i] |->
        IF c \in {"name", "primary_position"} THEN rows[i][c]
        ELSE IF rows[i][c] = NA /\ (\E j \in 1..Len(rows) : rows[j][c] # NA) THEN NaN
        ELSE rows[i][c]]]

\* the number of rows of a large table, more than the 17 that numpy's
\* quicksort leaves to its insertion sort
PaddedLen == Scale \div 5

\* a player of the long tail of the league: no start year, a short career,
\* no honors
Reserve(i) ==
  Merge(Merge([Identities[3] EXCEPT !.name = "Reserve" \o ToString(i)],
              Production[2]), Honors[1])

\* a table of n players, or of PaddedLen players of which the last are
\* reserves
PlayerTable(n, kinds, padded) ==
  [i \in 1..(IF padded THEN PaddedLen ELSE n) |->
     IF i <= n THEN MkPlayer(kinds[i]) ELSE Reserve(i)]

\* nba_goat_rankings_swish.csv, the file the website reads, and
\* nba_goat_rankings_swish_v2.csv, before a calculator has saved them
NoSwishCsv == [nba_goat_rankings_swish |-> <<>>, nba_goat_rankings_swish_v2 |-> <<>>]

\* a file row in a table another row of which fills the optional columns
Emptied(row) ==
  [c \in DOMAIN row |->
     IF c \notin {"name", "primary_position"} /\ row[c] = NA THEN NaN ELSE row[c]]

\* the rows the tables are made of, as read_csv returns them
FileRows ==
  {MkPlayer(k) : k \in PlayerKinds} \cup {Emptied(MkPlayer(k)) : k \in PlayerKinds}
    \cup {Reserve(PaddedLen)}

\* the component scores c of a player with the SWISH_Score under the
\* weights w
WithSwishScore(c, w) == Merge(c, [SWISH_Score |-> swish_score(c, w)])

\* everything the v1 scores of a player are computed from: the era and the
\* cells of the statistics
V1Inputs(player) ==
  [c \in DOMAIN SwishUnits \cup {"era"} |->
     IF c = "era" THEN get_player_era(player) ELSE player[c]]

\* everything the v2 scores of a player are computed from
V2Inputs(player) ==
  [c \in DOMAIN SwishUnits \cup {"era", "primary_position"} |-> player[c]]

\* the component scores of the file rows, computed once: players with the
\* same inputs have the same scores
V1ComponentTable ==
  [k \in {V1Inputs(p) : p \in FileRows} |->
     V1Components(CHOOSE p \in FileRows : V1Inputs(p) = k)]

V2ComponentTable ==
  [k \in {V2Inputs(V2Construct(<<p>>)[1]) : p \in FileRows} |->
     V2Components(V2Construct(<<CHOOSE p \in FileRows :
                                  V2Inputs(V2Construct(<<p>>)[1]) = k>>)[1])]

\* the scored form of every row a file can hold, under the weights the
\* constructor of the calculator sets
V1ScoreTable ==
  [w \in {V1SwishWeights} |->
     [k \in DOMAIN V1ComponentTable |-> WithSwishScore(V1ComponentTable[k], w)]]

V2ScoreTable ==
  [w \in {V2SwishWeights} |->
     [k \in DOMAIN V2ComponentTable |-> WithSwishScore(V2ComponentTable[k], w)]]

\* the loop over self.player_data.iterrows() of each calculate_* method and
\* the weighted sum of calculate_swish_score, for one row
V1Scores(player, w) == V1ScoreTable[w][V1Inputs(player)]

V2Scores(player, w) == V2ScoreTable[w][V2Inputs(player)]

V1CalculateSwishScore(pd, w) ==
  AddRanks(sort_float_values(Rows([i \in 1..Len(pd) |-> Merge(pd[i], V1Scores(pd[i], w))]),
                             "SWISH_Score"),
           "GOAT_Rank")

\* the rows of ranked with the column swish_version
WithVersion(ranked) ==
  [i \in 1..Len(ranked) |-> Merge(ranked[i], [swish_version |-> "2.1"])]

V2CalculateSwishScore(pd, w) ==
  WithVersion(
    AddRanks(sort_float_values(Rows([i \in 1..Len(pd) |-> Merge(pd[i], V2Scores(pd[i], w))]),
                               "SWISH_Score"),
             "GOAT_Rank"))

InitSwish ==
  /\ prog \in {"swish1", "swish2"}
  /\ pc = "start"
  /\ cls = (IF prog = "swish1" THEN "SwishScoreCalculator" ELSE "SwishScoreCalculatorV2")
  /\ arg = NoArg
  /\ env = NoArg
  /\ out = NoSwishCsv
  /\ \E n \in 1..MaxPlayers : \E kinds \in [1..n -> PlayerKinds] :
        \E padded \in {p \in BOOLEAN : p => n = 1} :
          files = read_csv(PlayerTable(n, kinds, padded))
  /\ data = <<>>
  /\ results_df = <<>>
  /\ player_data = <<>>
  /\ weights = [num |-> IF prog = "swish1" THEN V1SwishWeights ELSE V2SwishWeights,
                den |-> 100]
  /\ runs = 0

\* SwishScoreCalculator(player_data_path)
ConstructV1 ==
  /\ prog = "swish1"
  /\ pc = "start"
  /\ player_data' = files
  /\ pc' = "constructed"
  /\ UNCHANGED <<prog, cls, arg, env, out, files, data, results_df, weights, runs>>

\* SwishScoreCalculatorV2(player_data_path)
ConstructV2 ==
  /\ prog = "swish2"
  /\ pc = "start"
  /\ player_data' = V2Construct(files)
  /\ pc' = "constructed"
  /\ UNCHANGED <<prog, cls, arg, env, out, files, data, results_df, weights, runs>>

\* calculator.calculate_swish_score(), swish_score_calculator.py
CalculateSwishV1 ==
  /\ prog = "swish1"
  /\ pc \in {"constructed", "ranked"}
  /\ runs < MaxRuns
  /\ player_data' = V1CalculateSwishScore(player_data, weights.num)
  /\ pc' = "ranked"
  /\ runs' = runs + 1
  /\ UNCHANGED <<prog, cls, arg, env, out, files, data, results_df, weights>>

\* calculator.calculate_swish_score(), swish_score_calculator_v2.py
CalculateSwishV2 ==
  /\ prog = "swish2"
  /\ pc \in {"constructed", "ranked"}
  /\ runs < MaxRuns
  /\ player_data' = V2CalculateSwishScore(player_data, weights.num)
  /\ pc' = "ranked"
  /\ runs' = runs + 1
  /\ UNCHANGED <<prog, cls, arg, env, out, files, data, results_df, weights>>

\* columns_to_save of save_rankings, swish_score_calculator.py
V1SaveColumns ==
  {"GOAT_Rank", "name", "SWISH_Score"} \cup SwishComponents
    \cup {"career_ppg", "career_rpg", "career_apg", "career_per", "career_ws",
          "championships", "finals_mvp", "mvp", "all_star"}

\* columns_to_save of save_rankings, swish_score_calculator_v2.py
V2SaveColumns ==
  V1SaveColumns
    \cup {"era", "swish_version", "career_ts_pct", "career_stl_per_g", "career_blk_per_g",
          "dpoy", "all_defensive_first", "all_defensive_second"}

\* self.player_data[save_columns]: the columns of the list that the table has
SaveColumns(pd, columns_to_save) ==
  [i \in 1..Len(pd) |->
     [c \in columns_to_save \cap DOMAIN pd[i] |-> pd[i][c]]]

\* calculator.save_rankings(), swish_score_calculator.py
SaveRankingsV1 ==
  /\ prog = "swish1"
  /\ pc = "ranked"
  /\ out' = [out EXCEPT !.nba_goat_rankings_swish = SaveColumns(player_data, V1SaveColumns)]
  /\ pc' = "saved"
  /\ UNCHANGED <<prog, cls, arg, env, files, data, results_df, player_data, weights, runs>>

\* calculator.save_rankings(), swish_score_calculator_v2.py: the v2 file,
\* then the same rows "as the main file for the website"
SaveRankingsV2 ==
  /\ prog = "swish2"
  /\ pc = "ranked"
  /\ out' = [nba_goat_rankings_swish_v2 |-> SaveColumns(player_data, V2SaveColumns),
             nba_goat_rankings_swish |-> SaveColumns(player_data, V2SaveColumns)]
  /\ pc' = "saved"
  /\ UNCHANGED <<prog, cls, arg, env, files, data, results_df, player_data, weights, runs>>

NextSwish == ConstructV1 \/ ConstructV2 \/ CalculateSwishV1 \/ CalculateSwishV2
  \/ SaveRankingsV1
  \/ SaveRankingsV2

SpecSwish == InitSwish /\ [][NextSwish]_vars

(***************************************************************************)
(* Constructors: the factor weights each model class stores.  A stored     *)
(* weight of factor f is the fraction num[f] / den.                        *)
(***************************************************************************)
\* the default weights of every model class, in percent
DefaultWeights ==
  [PredictivePowerRankingModel |->
     [adjusted_efficiency |-> 45, recent_performance |-> 20, consistency |-> 10,
      pace_flexibility |-> 10, experience |-> 5, altitude_travel |-> 5,
      injury_adjustment |-> 5],
   WeightedPowerRankingModel |->
     [offensive_efficiency |-> 35, defensive_efficiency |-> 35, momentum |-> 15,
      schedule_strength |-> 10, dominance |-> 5],
   HybridPowerRankingModel |-> [base_weight |-> 70, results_weight |-> 30],
   ExperienceEnhancedModel |->
     [defensive_rating |-> 25, offensive_rating |-> 20, experience |-> 20,
      recent_performance |-> 15, consistency |-> 10, roster_continuity |-> 5,
      bench_depth |-> 5],
   FinalPredictiveModelV2 |->
     [defensive_rating |-> 30, offensive_rating |-> 30, recent_performance |-> 20,
      experience |-> 15, pace_control |-> 5],
   FinalPredictiveModel |->
     [defensive_rating |-> 30, offensive_rating |-> 25, recent_performance |-> 20,
      experience |-> 15, star_power |-> 5, pace_control |-> 5],
   FinalPredictiveModelClean |->
     [defensive_rating |-> 30, offensive_rating |-> 30, recent_performance |-> 20,
      experience |-> 15, pace_control |-> 5],
   DefenseFocusedPredictiveModel |->
     [defensive_rating |-> 30, offensive_rating |-> 20, recent_performance |-> 20,
      consistency |-> 15, experience |-> 10, pace_control |-> 5],
   FinalPredictiveModelV3 |-> V3Weights,
   SwishScoreCalculator |-> V1SwishWeights,
   SwishScoreCalculatorV2 |-> V2SwishWeights]

ModelClasses == DOMAIN DefaultWeights

\* the classes whose constructor takes weights and normalizes them
NormalizingClasses ==
  {"PredictivePowerRankingModel", "WeightedPowerRankingModel", "HybridPowerRankingModel"}

\* the component weight lists a class uses inside its sub-scores
InnerWeights(c) ==
  IF c = "SwishScoreCalculator"
  THEN {V1InnerWeights[k] : k \in DOMAIN V1InnerWeights}
  ELSE IF c = "SwishScoreCalculatorV2"
  THEN {V2InnerWeights[k] : k \in DOMAIN V2InnerWeights}
  ELSE {}

RECURSIVE SumOver(_, _)
SumOver(w, keys) ==
  IF keys = {} THEN 0
  ELSE LET k == CHOOSE x \in keys : TRUE IN w[k] + SumOver(w, keys \ {k})

Total(w) == SumOver(w, DOMAIN w)

Abs(x) == IF x < 0 THEN 0 - x ELSE x

\* custom weights are given in ten-thousandths
ArgDen == 10 * 10 * 10 * 10

\* the weights as declared or passed: num[f] / den for every factor f
PassedWeights(c, a) ==
  IF a = NoArg THEN [num |-> DefaultWeights[c], den |-> 100]
  ELSE [num |-> a, den |-> ArgDen]

\* the keys of self.weights in the order of the dict.  A dict keeps the
\* order in which its keys were written; a custom dict is taken with the
\* keys in the order of the default dict.  The hybrid constructor adds
\* base_weight + results_weight
WeightKeys ==
  [PredictivePowerRankingModel |->
     <<"adjusted_efficiency", "recent_performance", "consistency", "pace_flexibility",
       "experience", "altitude_travel", "injury_adjustment">>,
   WeightedPowerRankingModel |->
     <<"offensive_efficiency", "defensive_efficiency", "momentum", "schedule_strength",
       "dominance">>,
   HybridPowerRankingModel |-> <<"base_weight", "results_weight">>]

\* the keys of the dict w in this order
KeysOf(c, w) == SelectSeq(WeightKeys[c], LAMBDA f : f \in DOMAIN w)

\* the floats of the weights w.num[f] / w.den
FloatWeights(w) == [f \in DOMAIN w.num |-> FromRatio(w.num[f], w.den)]

\* sum(values): 0 + values[1] + values[2] + ... from the left, in floats
RECURSIVE FSumFrom(_, _, _)
FSumFrom(sum, values, k) ==
  IF k > Len(values) THEN sum ELSE FSumFrom(FAdd(sum, values[k]), values, k + 1)

FSum(values) == FSumFrom(FZero, values, 1)

\* the float weights in the order of the keys
ValuesOf(stored, keys) == Rows([k \in 1..Len(keys) |-> stored[keys[k]]])

\* total = sum(self.weights.values()); total = base_weight + results_weight
WeightTotal(c, stored) == FSum(ValuesOf(stored, KeysOf(c, stored)))

\* abs(total - 1.0) > 0.001
NeedsNormalizing(total) ==
  FLess(FromRatio(1, 1000), FAbs(FSub(total, FromInt(1))))

\* self.weights[key] = self.weights[key] / total: the quotient of two
\* Python floats, for total # 0.0
Normalized(stored, total) == [f \in DOMAIN stored |-> FDiv(stored[f], total)]

\* what __init__ leaves in self.weights for weights with this total
StoredWeights(c, stored, total) ==
  IF c \in NormalizingClasses /\ NeedsNormalizing(total) THEN Normalized(stored, total)
  ELSE stored

\* __init__ raises ZeroDivisionError: the first weight divided by a total
\* of 0.0 (Python floats do not divide by zero).  The weights are not
\* negative, so that their float total is 0.0 when all of them are 0
InitRaises(c, a) ==
  /\ c \in NormalizingClasses
  /\ DOMAIN PassedWeights(c, a).num # {}
  /\ Total(PassedWeights(c, a).num) = 0

\* the weights when __init__ returns: as declared or passed (num / den),
\* and the floats stored
WithStored(c, w, stored) ==
  [num |-> w.num, den |-> w.den,
   stored |-> IF c \in NormalizingClasses
              THEN StoredWeights(c, stored, WeightTotal(c, stored))
              ELSE stored]

InitWeights(c, a) == WithStored(c, PassedWeights(c, a), FloatWeights(PassedWeights(c, a)))

ArgValues == {0, 2000, 2005, 3500}
PredictiveArgValues == {0, 2000, 2005}
HybridArgValues == {0, 10, 90, 3000, 5000, 5005, 7000}

\* the dict-taking constructors may also be passed an empty dict; the
\* three small factors of the predictive model are given the same weight
CustomWeights(c) ==
  IF c = "WeightedPowerRankingModel"
  THEN [DOMAIN DefaultWeights[c] -> ArgValues] \cup {[f \in {} |-> 0]}
  ELSE IF c = "PredictivePowerRankingModel"
  THEN {a \in [DOMAIN DefaultWeights[c] -> PredictiveArgValues] :
          a.experience = a.altitude_travel /\ a.experience = a.injury_adjustment}
         \cup {[f \in {} |-> 0]}
  ELSE IF c = "HybridPowerRankingModel"
  THEN [DOMAIN DefaultWeights[c] -> HybridArgValues]
  ELSE {}

InitWeightsSpec ==
  /\ prog = "ctor"
  /\ pc = "start"
  /\ cls \in ModelClasses
  /\ arg \in {NoArg} \cup CustomWeights(cls)
  /\ env = NoArg
  /\ out = NoArg
  /\ files = <<>>
  /\ data = <<>>
  /\ results_df = <<>>
  /\ player_data = <<>>
  /\ weights = NoArg
  /\ runs = 0

\* Model(weights): __init__ returns
ConstructModel ==
  /\ prog = "ctor"
  /\ pc = "start"
  /\ ~InitRaises(cls, arg)
  /\ weights' = InitWeights(cls, arg)
  /\ pc' = "constructed"
  /\ UNCHANGED <<prog, cls, arg, env, out, files, data, results_df, player_data, runs>>

\* Model(weights): __init__ raises
ConstructFails ==
  /\ prog = "ctor"
  /\ pc = "start"
  /\ InitRaises(cls, arg)
  /\ pc' = "crashed"
  /\ UNCHANGED <<prog, cls, arg, env, out, files, data, results_df, player_data, weights, runs>>

NextWeights == ConstructModel \/ ConstructFails

SpecWeights == InitWeightsSpec /\ [][NextWeights]_vars

(***************************************************************************)
(* Input tables of the V3 pipeline                                         *)
(***************************************************************************)
\* AdjEM_Rank values of the input rows, one per branch of the rank thresholds
KenPomRanks == <<1, 2, 3, 8, 20, 40, 60, 90, 120>>

\* efficiency / personnel / four-factors profile of a team
Styles ==
  << [AdjOE |-> 1150, oer |-> 0,  AdjDE |-> 1000, der |-> 20,
      Experience |-> 31, Off_TO |-> 150, Def_TO |-> 210],
     [AdjOE |-> 1100, oer |-> 20, AdjDE |-> 950,  der |-> 0,
      Experience |-> 26, Off_TO |-> 141, Def_TO |-> 171],
     [AdjOE |-> 1100, oer |-> 5,  AdjDE |-> 1000, der |-> 5,
      Experience |-> 21, Off_TO |-> 180, Def_TO |-> 180],
     [AdjOE |-> 1050, oer |-> 30, AdjDE |-> 1050, der |-> 30,
      Experience |-> 16, Off_TO |-> 181, Def_TO |-> 151] >>

\* the (rank, style) combinations a row of the input may have
TeamKinds ==
  {ks \in (1..Len(KenPomRanks)) \X (1..Len(Styles)) :
     (ks[1] + ks[2]) % 6 = 0 \/ ks = <<1, 1>>}

TeamName(i) == "Team" \o ToString(i)

\* tables of up to this many teams are also taken with the rest of the
\* division appended, with incomplete or missing files, and with every
\* combination of game files
SmallTable == 2

\* tables of more rows than this take their rows from a part of the pool
WideTable == SmallTable + 1

\* the kinds of the teams of such a table: the top three KenPom ranks
TopKinds == {ks \in TeamKinds : ks[1] <= 3}

MkTeam(i, ks) ==
  LET k == KenPomRanks[ks[1]]
      s == Styles[ks[2]]
  IN  [Team |-> TeamName(i), Conference |-> "ACC",
       AdjEM_Rank |-> k, AdjEM |-> s.AdjOE - s.AdjDE,
       AdjOE |-> s.AdjOE, AdjDE |-> s.AdjDE,
       AdjOE_Rank |-> k + s.oer, AdjDE_Rank |-> k + s.der,
       Experience |-> s.Experience, Off_TO |-> s.Off_TO, Def_TO |-> s.Def_TO]

\* a large table: the rows of the rest of the division, all of them weaker
\* than the teams above
Filler(i) ==
  [Team |-> TeamName(i), Conference |-> "SWAC",
   AdjEM_Rank |-> 200 + i, AdjEM |-> 0 - 100,
   AdjOE |-> 1000, AdjDE |-> 1100, AdjOE_Rank |-> 200 + i, AdjDE_Rank |-> 200 + i,
   Experience |-> 20, Off_TO |-> 190, Def_TO |-> 170]

TeamTable(n, kinds, padded) ==
  [i \in 1..(IF padded THEN PaddedLen ELSE n) |->
     IF i <= n THEN MkTeam(i, kinds[i]) ELSE Filler(i)]

\* the columns of each CSV
TableColumns ==
  [rankings |-> {"Team", "Conference", "AdjEM_Rank", "AdjEM", "AdjOE", "AdjDE",
                 "AdjOE_Rank", "AdjDE_Rank"},
   personnel |-> {"Team", "Experience"},
   four_factors |-> {"Team", "Off_TO", "Def_TO"}]

\* the columns the pipeline cannot do without
KeyColumns == {"Team", "AdjDE", "AdjOE", "AdjEM_Rank", "Experience", "Off_TO", "Def_TO"}

\* how the three CSVs on disk differ from a complete, consistent scrape
Shapes ==
  {[kind |-> "full", what |-> ""],
   [kind |-> "repeats_first", what |-> "personnel"]}
    \cup {[kind |-> "lacks_first", what |-> t] : t \in TableNames}
    \cup {[kind |-> "no_file", what |-> t] : t \in TableNames}
    \cup {[kind |-> "no_column", what |-> c] : c \in KeyColumns}

\* the table t on disk, cut out of the rows of a complete scrape
CsvFile(t, rows, shape) ==
  LET columns ==
        IF shape.kind = "no_column" /\ (shape.what # "Team" \/ t = "personnel")
        THEN TableColumns[t] \ {shape.what} ELSE TableColumns[t]
      kept == IF shape.kind = "lacks_first" /\ shape.what = t
              THEN SubSeq(rows, 2, Len(rows))
              ELSE IF shape.kind = "repeats_first" /\ shape.what = t
              THEN <<rows[1]>> \o rows
              ELSE rows
  IN  IF shape.kind = "no_file" /\ shape.what = t
      THEN [exists |-> FALSE, columns |-> {}, rows |-> <<>>]
      ELSE [exists |-> TRUE, columns |-> columns,
            rows |-> [i \in 1..Len(kept) |-> [c \in columns |-> kept[i][c]]]]

CsvFiles(rows, shape) == [t \in TableNames |-> CsvFile(t, rows, shape)]

\* data/final_predictive_rankings_v3.csv as an earlier run left it
OldRankings == <<[Team |-> "Team0", Final_Rank |-> 1]>>

NoCsv == [exists |-> FALSE, rows |-> <<>>]

\* the roundings of the float totals of the table the files hold
InputRoundings(f, w) ==
  IF LoadRaises(f) THEN {<<>>}
  ELSE IF GenerateRaises(load_all_data(f), MergedColumns(f)) THEN {<<>>}
  ELSE FinalScoreRoundings(load_all_data(f), w)

InitV3 ==
  /\ prog = "v3"
  /\ pc = "constructed"
  /\ cls = "FinalPredictiveModelV3"
  /\ arg = NoArg
  /\ \E n \in 1..MaxTeams : \E kinds \in [1..n -> TeamKinds] :
        \E padded \in {p \in BOOLEAN : p => n <= SmallTable} :
          \E shape \in {sh \in Shapes : sh.kind # "full" => n <= SmallTable /\ ~padded} :
            \E old \in {o \in BOOLEAN : o => n <= SmallTable /\ ~padded} :
              /\ files = CsvFiles(TeamTable(n, kinds, padded), shape)
              /\ out = IF old THEN [exists |-> TRUE, rows |-> OldRankings] ELSE NoCsv
  /\ env \in [rounding : InputRoundings(files, V3Weights)]
  /\ data = <<>>
  /\ results_df = <<>>
  /\ player_data = <<>>
  /\ weights = [num |-> V3Weights, den |-> 100]
  /\ runs = 0

\* model.load_all_data()
LoadAllData ==
  /\ prog = "v3"
  /\ pc \in {"constructed", "ranked"}
  /\ runs < MaxRuns
  /\ ~LoadRaises(files)
  /\ data' = load_all_data(files)
  /\ pc' = "loaded"
  /\ UNCHANGED <<prog, cls, arg, env, out, files, results_df, player_data, weights, runs>>

\* a script that opens its output file before it loads its inputs
LoadAllDataFailsTruncating ==
  /\ prog = "v3"
  /\ pc \in {"constructed", "ranked"}
  /\ runs < MaxRuns
  /\ LoadRaises(files)
  /\ pc' = "crashed"
  /\ out' = [exists |-> TRUE, rows |-> <<>>]
  /\ UNCHANGED <<prog, cls, arg, env, files, data, results_df, player_data, weights, runs>>

\* model.load_all_data() raises and ends the script
LoadAllDataFails ==
  /\ prog = "v3"
  /\ pc \in {"constructed", "ranked"}
  /\ runs < MaxRuns
  /\ LoadRaises(files)
  /\ pc' = "crashed"
  /\ UNCHANGED <<prog, cls, arg, env, out, files, data, results_df, player_data, weights, runs>>

\* model.generate_rankings()
GenerateRankings ==
  /\ prog = "v3"
  /\ pc \in {"loaded", "ranked"}
  /\ runs < MaxRuns
  /\ ~GenerateRaises(data, MergedColumns(files))
  /\ results_df' = generate_rankings(data, weights.num, env.rounding)
  /\ pc' = "ranked"
  /\ runs' = runs + 1
  /\ UNCHANGED <<prog, cls, arg, env, out, files, data, player_data, weights>>

\* model.generate_rankings() raises and ends the script
GenerateRankingsFails ==
  /\ prog = "v3"
  /\ pc \in {"loaded", "ranked"}
  /\ runs < MaxRuns
  /\ GenerateRaises(data, MergedColumns(files))
  /\ pc' = "crashed"
  /\ UNCHANGED <<prog, cls, arg, env, out, files, data, results_df, player_data, weights, runs>>

\* display_rankings, show_turnover_impact, then
\* rankings.to_csv('data/final_predictive_rankings_v3.csv', index=False)
SaveRankings ==
  /\ prog = "v3"
  /\ pc = "ranked"
  /\ out' = [exists |-> TRUE, rows |-> results_df]
  /\ pc' = "saved"
  /\ UNCHANGED <<prog, cls, arg, env, files, data, results_df, player_data, weights, runs>>

NextV3 ==
  \/ LoadAllData
  \/ LoadAllDataFails
  \/ GenerateRankings
  \/ GenerateRankingsFails
  \/ SaveRankings

SpecV3 == InitV3 /\ [][NextV3]_vars

(***************************************************************************)
(* All programs                                                            *)
(***************************************************************************)
(***************************************************************************)
(* The hybrid model: KenPom efficiency plus game results                    *)
(* (scripts/hybrid_model.py)                                                *)
(***************************************************************************)

\* self.upset_games / self.exciting_games: None, or the frame read
NoTable == [is_none |-> TRUE, rows |-> <<>>]

Table(rows) == [is_none |-> FALSE, rows |-> rows]

\* load_data raises: the two KenPom tables are read outside the try block
HybridLoadRaises(f) == ~f.rankings.exists \/ ~f.four_factors.exists

\* a loader whose except branch resets only the table whose read failed
load_data_keeping_read_table(f) ==
  [rankings |-> f.rankings.rows,
   upset_games |-> IF f.upset_games.exists
                   THEN Table(f.upset_games.rows) ELSE NoTable,
   exciting_games |-> IF f.exciting_games.exists
                      THEN Table(f.exciting_games.rows) ELSE NoTable]

\* load_data: both game tables are read in one try block whose bare except
\* sets both of them to None
load_data(f) ==
  LET read == f.upset_games.exists /\ f.exciting_games.exists
  IN  [rankings |-> f.rankings.rows,
       upset_games |-> IF read THEN Table(f.upset_games.rows) ELSE NoTable,
       exciting_games |-> IF read THEN Table(f.exciting_games.rows) ELSE NoTable]

\* repr of the characters of a str from position k on, within the quote
\* character repr chose: the quote and the backslash get a backslash
RECURSIVE Escaped(_, _, _)
Escaped(text, quote, k) ==
  IF k > Len(text) THEN ""
  ELSE LET c == SubSeq(text, k, k)
       IN  (IF c = quote \/ c = "\\" THEN "\\" \o c ELSE c) \o Escaped(text, quote, k + 1)

\* repr of a str of printable characters: in single quotes, or in double
\* quotes when it holds a single quote and no double quote
Quoted(text, quote) == quote \o Escaped(text, quote, 1) \o quote

repr(text) ==
  Quoted(text, IF Contains(text, "'") /\ ~Contains(text, "\"") THEN "\"" ELSE "'")

\* the items of the dict of a game row from entry k on.  An entry of a row
\* is a column name and a cell; the cell of a text column is a str (quoted),
\* the cell of a numeric column is given as Python prints the number
RECURSIVE ItemsText(_, _)
ItemsText(game, k) ==
  IF k > Len(game) THEN ""
  ELSE (IF k > 1 THEN ", " ELSE "")
         \o repr(game[k].column) \o ": "
         \o (IF game[k].quoted THEN repr(game[k].cell) ELSE game[k].cell)
         \o ItemsText(game, k + 1)

\* game_text = str(game.to_dict()): "{'Rank': 1, 'Game': 'Team1 70, Team2 65'}"
game_text(game) == "{" \o ItemsText(game, 1) \o "}"

\* team_name in game_text
Mentions(game, team_name) == Contains(game_text(game), team_name)

\* len(game_text)
TextLen(game) == Len(game_text(game))

\* text.index(fragment): where the fragment first starts, counted from 0
IndexIn(text, fragment) ==
  (CHOOSE i \in 1..(Len(text) - Len(fragment) + 1) :
     /\ SubSeq(text, i, i + Len(fragment) - 1) = fragment
     /\ \A j \in 1..(i - 1) : SubSeq(text, j, j + Len(fragment) - 1) # fragment) - 1

\* game_text.index(team_name)
TextIndex(game, team_name) == IndexIn(game_text(game), team_name)

\* game_text.index(team_name) < len(game_text) / 2
AppearsEarly(game, team_name) == 2 * TextIndex(game, team_name) < TextLen(game)

\* the rows of a game table that mention the team, and those of them in
\* which it appears early
GamesOf(games, team_name) ==
  {i \in 1..Len(games.rows) : Mentions(games.rows[i], team_name)}

GamesWon(games, team_name) ==
  {i \in GamesOf(games, team_name) : AppearsEarly(games.rows[i], team_name)}

\* results_score += team_upset_wins * 10; results_score -= team_upset_losses * 15
UpsetScore(team_upset_wins, team_upset_losses) ==
  50 + team_upset_wins * 10 - team_upset_losses * 15

\* the rows of the upset table that mention the team, of which it won
\* team_upset_wins
UpsetScoreOf(mentioned, team_upset_wins) ==
  UpsetScore(team_upset_wins, mentioned - team_upset_wins)

\* results_score after the upset block: an int
AfterUpsets(d, team_name) ==
  IF d.upset_games.is_none THEN 50
  ELSE UpsetScoreOf(Cardinality(GamesOf(d.upset_games, team_name)),
                    Cardinality(GamesWon(d.upset_games, team_name)))

\* analyze_game_results without the cap of line 114
analyze_game_results_uncapped(d, team_name) ==
  LET close_game_total == Cardinality(GamesOf(d.exciting_games, team_name))
      close_game_wins == Cardinality(GamesWon(d.exciting_games, team_name))
      clutch_rate == FromRatio(close_game_wins, close_game_total)
      results_score ==
        IF d.exciting_games.is_none \/ close_game_total = 0
        THEN FromInt(AfterUpsets(d, team_name))
        ELSE FAdd(FromInt(AfterUpsets(d, team_name)),
                  FMul(FSub(clutch_rate, FromRatio(5, 10)), FromInt(20)))
  IN  results_score

\* analyze_game_results: the number returned, as a float
analyze_game_results(d, team_name) ==
  LET close_game_total == Cardinality(GamesOf(d.exciting_games, team_name))
      close_game_wins == Cardinality(GamesWon(d.exciting_games, team_name))
      clutch_rate == FromRatio(close_game_wins, close_game_total)
      results_score ==
        IF d.exciting_games.is_none \/ close_game_total = 0
        THEN FromInt(AfterUpsets(d, team_name))
        ELSE FAdd(FromInt(AfterUpsets(d, team_name)),
                  FMul(FSub(clutch_rate, FromRatio(5, 10)), FromInt(20)))
  IN  FMax(FromInt(0), FMin(FromInt(100), results_score))

\* calculate_momentum_bonus
calculate_momentum_bonus(d, team_name) ==
  LET team_row == SelectSeq(d.rankings, LAMBDA r : r.Team = team_name)
  IN  IF Len(team_row) = 0 THEN 0
      ELSE IF team_row[1].AdjEM_Rank <= 25 THEN 10
      ELSE IF team_row[1].AdjEM_Rank <= 50 THEN 5
      ELSE 0

\* all_adj_em.max() and all_adj_em.min(), in tenths
MaxEm(d) ==
  LET all_adj_em == {d.rankings[i].AdjEM : i \in 1..Len(d.rankings)}
  IN  CHOOSE m \in all_adj_em : \A e \in all_adj_em : m >= e

MinEm(d) ==
  LET all_adj_em == {d.rankings[i].AdjEM : i \in 1..Len(d.rankings)}
  IN  CHOOSE m \in all_adj_em : \A e \in all_adj_em : m <= e

\* calculate_base_score: 100 * (team_row['AdjEM'] - min_em) / (max_em - min_em)
\* on the floats read from the AdjEM column
calculate_base_score(d, team_row) ==
  FDiv(FMul(FromInt(100), FSub(FromRatio(team_row.AdjEM, 10), FromRatio(MinEm(d), 10))),
       FSub(FromRatio(MaxEm(d), 10), FromRatio(MinEm(d), 10)))

\* self.base_weight / self.results_weight as __init__ left it: the float
\* passed (a default in percent, or a custom weight in ten-thousandths),
\* or that float divided by the float total of the two
HybridWeight(w, f) == w.stored[f]

\* the dict calculate_hybrid_score returns for the three scores of a team:
\*   hybrid_score = base_weight * base_score + results_weight * results_score
\*   hybrid_score += min(5, momentum_bonus * 0.5)
HybridScores(w, base_score, results_score, momentum_bonus) ==
  [hybrid_score |->
     FAdd(FAdd(FMul(HybridWeight(w, "base_weight"), base_score),
               FMul(HybridWeight(w, "results_weight"), results_score)),
          FMin(FromInt(5), FromRatio(momentum_bonus * 5, 10))),
   base_score |-> base_score,
   results_score |-> results_score,
   momentum_bonus |-> momentum_bonus]

\* calculate_hybrid_score
calculate_hybrid_score(d, team_row, w) ==
  HybridScores(w, calculate_base_score(d, team_row),
               analyze_game_results(d, team_row.Team),
               calculate_momentum_bonus(d, team_row.Team))

\* the result dict of generate_rankings for a row and its scores
HybridResult(row, scores) ==
  [Team |-> row.Team, Conference |-> row.Conference,
   Hybrid_Score |-> scores.hybrid_score,
   Base_Score |-> scores.base_score,
   Results_Score |-> scores.results_score,
   Momentum_Bonus |-> scores.momentum_bonus,
   KenPom_Rank |-> row.AdjEM_Rank, AdjEM |-> row.AdjEM,
   AdjOE |-> row.AdjOE, AdjDE |-> row.AdjDE]

\* the Hybrid_Rank and Rank_Diff columns added to the sorted frame
HybridRanked(sorted) ==
  Rows([i \in 1..Len(sorted) |->
          Merge(sorted[i],
                [Hybrid_Rank |-> AssignRank(sorted, i),
                 Rank_Diff |-> sorted[i].KenPom_Rank - AssignRank(sorted, i)])])

\* generate_rankings of the hybrid model
hybrid_generate_rankings(d, w) ==
  HybridRanked(
    sort_float_values(
      Rows([i \in 1..Len(d.rankings) |->
              HybridResult(d.rankings[i], calculate_hybrid_score(d, d.rankings[i], w))]),
      "Hybrid_Score"))

\* the rows of a long list of upsets: five wins bring the score to 100
ManyGames == 5

\* a row of a game table: the teams and the score in the Game cell, first
\* the winner.  With these columns the winner starts in the first half of
\* the text of the row and the loser in the second
Game(first, second) ==
  <<[column |-> "Rank", cell |-> "1", quoted |-> FALSE],
    [column |-> "Game",
     cell |-> TeamName(first) \o " 70, " \o TeamName(second) \o " 65", quoted |-> TRUE],
    [column |-> "Location", cell |-> "Home", quoted |-> TRUE]>>

\* a row of fewer columns: both teams start in the second half of its text
ShortGame(first, second) ==
  <<[column |-> "Rank", cell |-> "1", quoted |-> FALSE],
    [column |-> "Game",
     cell |-> TeamName(first) \o " 70, " \o TeamName(second) \o " 65", quoted |-> TRUE]>>

\* what data/kenpom_upset_games_latest.csv and
\* data/kenpom_exciting_games_latest.csv may be: not readable, or a table.
\* Game(21, 3) names Team21, whose text also holds the name Team2
UpsetFiles ==
  {[exists |-> FALSE, rows |-> <<>>],
   [exists |-> TRUE, rows |-> <<>>],
   [exists |-> TRUE, rows |-> <<Game(2, 1)>>],
   [exists |-> TRUE, rows |-> <<ShortGame(1, 2)>>],
   [exists |-> TRUE, rows |-> <<Game(21, 3)>>],
   [exists |-> TRUE, rows |-> <<Game(1, 2), Game(3, 1)>>],
   [exists |-> TRUE, rows |-> [i \in 1..ManyGames |-> Game(1, 2)]]}

ExcitingFiles ==
  {[exists |-> FALSE, rows |-> <<>>],
   [exists |-> TRUE, rows |-> <<Game(1, 2)>>],
   [exists |-> TRUE, rows |-> <<Game(2, 1), Game(2, 3)>>]}

\* the rows of kenpom_rankings_latest.csv
HybridRankings(n, kinds) ==
  [i \in 1..n |->
     LET t == MkTeam(i, kinds[i])
     IN  [Team |-> t.Team, Conference |-> t.Conference, AdjEM_Rank |-> t.AdjEM_Rank,
          AdjEM |-> t.AdjEM, AdjOE |-> t.AdjOE, AdjDE |-> t.AdjDE]]

\* show_interesting_movers: the Results_Impact column added to results_df,
\* self.results_df['Results_Score'] - 50
show_interesting_movers(df) ==
  Rows([i \in 1..Len(df) |->
          Merge(df[i], [Results_Impact |-> FSub(df[i].Results_Score, FromInt(50))])])

\* data/hybrid_rankings_<timestamp>.csv and data/hybrid_rankings_latest.csv
\* before the script saved its rankings
NoHybridCsv == [hybrid_rankings_timestamp |-> NoCsv, hybrid_rankings_latest |-> NoCsv]

\* save_rankings: results_df written to the file named after the time of
\* the run and to hybrid_rankings_latest.csv
save_rankings(df) ==
  [hybrid_rankings_timestamp |-> [exists |-> TRUE, rows |-> df],
   hybrid_rankings_latest |-> [exists |-> TRUE, rows |-> df]]

\* HybridPowerRankingModel(base_weight=0.5, results_weight=0.5): the
\* weights passed, in ten-thousandths, and what __init__ makes of them
ResultsHeavyWeights ==
  InitWeights("HybridPowerRankingModel", [base_weight |-> 5000, results_weight |-> 5000])

\* the object results_heavy of the end of the script: a second model, its
\* load_data() and its generate_rankings()
results_heavy(f) ==
  [weights |-> ResultsHeavyWeights,
   data |-> load_data(f),
   results_df |-> hybrid_generate_rankings(load_data(f), ResultsHeavyWeights)]

\* A KenPom table of one team, or of teams with one and the same
\* efficiency margin, has max_em - min_em = 0 in calculate_base_score.
InitHybrid ==
  /\ prog = "hybrid"
  /\ pc = "constructed"
  /\ cls = "HybridPowerRankingModel"
  /\ arg = NoArg
  /\ env = NoArg
  /\ out = NoHybridCsv
  /\ \E n \in 1..MaxTeams :
      \E kinds \in [1..n -> IF n > WideTable THEN TopKinds ELSE TeamKinds] :
       \E upset \in {u \in UpsetFiles : n > SmallTable => Len(u.rows) = 2 \/ ~u.exists} :
        \E exciting \in {e \in ExcitingFiles :
                           n > SmallTable => (e.exists <=> upset.exists) /\ Len(e.rows) # 1},
          kenpom \in {k \in BOOLEAN : ~k => n <= SmallTable} :
         /\ ~kenpom => ~upset.exists /\ ~exciting.exists
         /\ files = [rankings |-> [exists |-> TRUE, rows |-> HybridRankings(n, kinds)],
                     four_factors |-> [exists |-> kenpom],
                     upset_games |-> upset,
                     exciting_games |-> exciting]
  /\ data = <<>>
  /\ results_df = <<>>
  /\ player_data = <<>>
  /\ weights = InitWeights("HybridPowerRankingModel", NoArg)
  /\ runs = 0

\* model.load_data()
HybridLoadData ==
  /\ prog = "hybrid"
  /\ pc = "constructed"
  /\ ~HybridLoadRaises(files)
  /\ data' = load_data(files)
  /\ pc' = "loaded"
  /\ UNCHANGED <<prog, cls, arg, env, out, files, results_df, player_data, weights, runs>>

\* model.load_data() raises FileNotFoundError and ends the script
HybridLoadDataFails ==
  /\ prog = "hybrid"
  /\ pc = "constructed"
  /\ HybridLoadRaises(files)
  /\ pc' = "crashed"
  /\ UNCHANGED <<prog, cls, arg, env, out, files, data, results_df, player_data, weights, runs>>

\* model.generate_rankings()
HybridGenerateRankings ==
  /\ prog = "hybrid"
  /\ pc = "loaded"
  /\ results_df' = hybrid_generate_rankings(data, weights)
  /\ pc' = "ranked"
  /\ runs' = runs + 1
  /\ UNCHANGED <<prog, cls, arg, env, out, files, data, player_data, weights>>

\* model.display_top_teams(25), then model.show_interesting_movers()
ShowInterestingMovers ==
  /\ prog = "hybrid"
  /\ pc = "ranked"
  /\ results_df' = show_interesting_movers(results_df)
  /\ pc' = "shown"
  /\ UNCHANGED <<prog, cls, arg, env, out, files, data, player_data, weights, runs>>

\* model.compare_models(team) for three teams, which prints, then
\* model.save_rankings()
HybridSaveRankings ==
  /\ prog = "hybrid"
  /\ pc = "shown"
  /\ out' = save_rankings(results_df)
  /\ pc' = "saved"
  /\ UNCHANGED <<prog, cls, arg, env, files, data, results_df, player_data, weights, runs>>

\* the experiment that ends the script: results_heavy is constructed,
\* loaded and ranked, and its top ten are printed
HybridExperiment ==
  /\ prog = "hybrid"
  /\ pc = "saved"
  /\ env' = [results_heavy |-> results_heavy(files)]
  /\ pc' = "done"
  /\ UNCHANGED <<prog, cls, arg, out, files, data, results_df, player_data, weights, runs>>

NextHybrid ==
  \/ HybridLoadData
  \/ HybridLoadDataFails
  \/ HybridGenerateRankings
  \/ ShowInterestingMovers
  \/ HybridSaveRankings
  \/ HybridExperiment

SpecHybrid == InitHybrid /\ [][NextHybrid]_vars

(***************************************************************************)
(* FinalPredictiveModel (scripts/final_predictive_model.py) and            *)
(* ExperienceEnhancedModel (scripts/experience_enhanced_model.py).  The    *)
(* cells AdjOE, AdjDE, AdjEM, Experience, Continuity and Bench are in      *)
(* tenths; the sub-scores and the totals are the floats the code computes. *)
(* The object of either class is taken as its fields data and              *)
(* player_stats.                                                           *)
(***************************************************************************)
ExperienceClasses == {"FinalPredictiveModel", "ExperienceEnhancedModel"}

\* one row of right joined to one row of left: a column other than Team
\* that both have keeps its name for the value of left and gets the suffix
\* for the value of right
JoinRows(left_row, right_row, suffix) ==
  LET shared == ((DOMAIN left_row) \cap (DOMAIN right_row)) \ {"Team"}
      renamed == {c \o suffix : c \in shared}
  IN  [c \in (DOMAIN left_row) \cup ((DOMAIN right_row) \ shared) \cup renamed |->
         IF c \in DOMAIN left_row THEN left_row[c]
         ELSE IF c \in (DOMAIN right_row) \ shared THEN right_row[c]
         ELSE right_row[CHOOSE b \in shared : b \o suffix = c]]

\* pd.merge(left, right, on='Team', how='inner', suffixes=('', suffix))
merge(left, right, suffix) ==
  Flatten([i \in 1..Len(left) |->
             LET SameTeam(r) == r.Team = left[i].Team
                 hits == SelectSeq(right, SameTeam)
             IN  [k \in 1..Len(hits) |-> JoinRows(left[i], hits[k], suffix)]])

\* self.data.drop(columns=cols)
drop(rows, cols) ==
  [i \in 1..Len(rows) |-> [c \in (DOMAIN rows[i]) \ cols |-> rows[i][c]]]

\* FinalPredictiveModel.load_all_data raises FileNotFoundError
FinalLoadRaises(f) ==
  ~f.rankings.exists \/ ~f.personnel.exists \/ ~f.tempo.exists \/ ~f.player_stats.exists

\* FinalPredictiveModel.load_all_data: rankings, personnel and tempo merged
\* on Team, without the Conference columns of personnel and tempo
DropConferenceColumns(merged) ==
  drop(merged, {col \in UNION {DOMAIN merged[i] : i \in 1..Len(merged)} :
                  Contains(col, "Conference") /\ col # "Conference"})

final_load_all_data(f) ==
  [data |-> DropConferenceColumns(
              Rows(merge(merge(f.rankings.rows, f.personnel.rows, "_pers"),
                         f.tempo.rows, "_tempo"))),
   player_stats |-> f.player_stats.rows]

\* ExperienceEnhancedModel.load_all_data raises FileNotFoundError
EnhancedLoadRaises(f) ==
  ~f.rankings.exists \/ ~f.four_factors.exists \/ ~f.personnel.exists

\* ExperienceEnhancedModel.load_all_data: rankings and personnel merged on
\* Team, without Conference_pers; player_stats is None when its CSV cannot
\* be read
enhanced_load_all_data(f) ==
  [data |-> drop(merge(f.rankings.rows, f.personnel.rows, "_pers"), {"Conference_pers"}),
   player_stats |-> IF f.player_stats.exists THEN Table(f.player_stats.rows) ELSE NoTable]

\* (all_def > team_row['AdjDE']).sum() / len(all_def) * 100
def_percentile(d, team_row) ==
  FMul(FromRatio(Cardinality({i \in 1..Len(d) : d[i].AdjDE > team_row.AdjDE}), Len(d)),
       FromInt(100))

\* (team_row['AdjOE'] > all_off).sum() / len(all_off) * 100
off_percentile(d, team_row) ==
  FMul(FromRatio(Cardinality({i \in 1..Len(d) : team_row.AdjOE > d[i].AdjOE}), Len(d)),
       FromInt(100))

\* (team_row['Experience'] > all_exp).sum() / len(all_exp) * 100
exp_percentile(d, team_row) ==
  FMul(FromRatio(Cardinality({i \in 1..Len(d) : team_row.Experience > d[i].Experience}),
                 Len(d)),
       FromInt(100))

\* FinalPredictiveModel.calculate_defensive_rating
FinalDefensiveRating(d, team_row) ==
  IF team_row["AdjDE.Rank"] <= 10
  THEN FMin(FromInt(100), FAdd(def_percentile(d, team_row), FromInt(5)))
  ELSE IF team_row["AdjDE.Rank"] <= 25
  THEN FMin(FromInt(100), FAdd(def_percentile(d, team_row), FromInt(2)))
  ELSE def_percentile(d, team_row)

\* FinalPredictiveModel.calculate_offensive_rating
FinalOffensiveRating(d, team_row) ==
  IF team_row["AdjOE.Rank"] <= 10
  THEN FMin(FromInt(100), FAdd(off_percentile(d, team_row), FromInt(4)))
  ELSE IF team_row["AdjOE.Rank"] <= 25
  THEN FMin(FromInt(100), FAdd(off_percentile(d, team_row), FromInt(2)))
  ELSE off_percentile(d, team_row)

\* FinalPredictiveModel.calculate_recent_performance
FinalRecentPerformance(d, team_name) ==
  LET rank == FirstRow(d, team_name).AdjEM_Rank
  IN  IF rank <= 5 THEN 98
      ELSE IF rank <= 10 THEN 93
      ELSE IF rank <= 25 THEN 85
      ELSE IF rank <= 50 THEN 75
      ELSE IF rank <= 75 THEN 65
      ELSE IF rank <= 100 THEN 55
      ELSE IF rank <= 150 THEN 45
      ELSE 35

\* FinalPredictiveModel.calculate_experience
FinalCalculateExperience(d, team_row) ==
  LET exp_value == team_row.Experience
      p0 == exp_percentile(d, team_row)
      p1 == IF exp_value >= 30 THEN FMin(FromInt(100), FAdd(p0, FromInt(10)))
            ELSE IF exp_value >= 25 THEN FMin(FromInt(100), FAdd(p0, FromInt(5)))
            ELSE p0
  IN  IF exp_value < 15 THEN FMax(FromInt(0), FSub(p1, FromInt(10)))
      ELSE IF exp_value < 20 THEN FMax(FromInt(0), FSub(p1, FromInt(5)))
      ELSE p1

\* (self.player_stats['Team'] == team_name).sum()
star_count(self, team_name) ==
  Cardinality({i \in 1..Len(self.player_stats) : self.player_stats[i].Team = team_name})

\* FinalPredictiveModel.calculate_star_power
calculate_star_power(self, team_name) ==
  IF star_count(self, team_name) >= 3 THEN 100
  ELSE IF star_count(self, team_name) = 2 THEN 85
  ELSE IF star_count(self, team_name) = 1 THEN 70
  ELSE IF FirstRow(self.data, team_name).AdjEM_Rank <= 50 THEN 50
  ELSE 30

\* the tempo rank calculate_pace_control and generate_rankings read from a
\* row, or absent when the row has neither column
NoTempo == 0 - 1

tempo_rank(team_row) ==
  IF "Tempo-Adj.Rank_tempo" \in DOMAIN team_row THEN team_row["Tempo-Adj.Rank_tempo"]
  ELSE IF "Tempo-Adj.Rank" \in DOMAIN team_row THEN team_row["Tempo-Adj.Rank"]
  ELSE NoTempo

\* FinalPredictiveModel.calculate_pace_control
calculate_pace_control(team_row) ==
  LET rank == tempo_rank(team_row)
      pace_score == IF rank <= 30 \/ rank >= 335 THEN 90
                    ELSE IF rank <= 60 \/ rank >= 305 THEN 75
                    ELSE IF rank <= 100 \/ rank >= 265 THEN 60
                    ELSE 45
  IN  IF rank = NoTempo THEN 50
      ELSE IF team_row.AdjEM_Rank <= 25 THEN Min(100, pace_score + 10)
      ELSE pace_score

\* the keys of the scores dict of calculate_total_score, in its order
FinalFactors ==
  <<"defensive_rating", "offensive_rating", "recent_performance", "experience",
    "star_power", "pace_control">>

EnhancedFactors ==
  <<"defensive_rating", "offensive_rating", "experience", "recent_performance",
    "consistency", "roster_continuity", "bench_depth">>

\* the scores dict of FinalPredictiveModel.calculate_total_score
FinalScores(self, team_row) ==
  [defensive_rating |-> FinalDefensiveRating(self.data, team_row),
   offensive_rating |-> FinalOffensiveRating(self.data, team_row),
   recent_performance |-> FromInt(FinalRecentPerformance(self.data, team_row.Team)),
   experience |-> FinalCalculateExperience(self.data, team_row),
   star_power |-> FromInt(calculate_star_power(self, team_row.Team)),
   pace_control |-> FromInt(calculate_pace_control(team_row))]

\* sum(scores[factor] * self.weights[factor] for factor in scores): the
\* products of the first k factors added to 0 one after the other
RECURSIVE SumProducts(_, _, _, _)
SumProducts(scores, w, factors, k) ==
  IF k = 0 THEN FromInt(0)
  ELSE FAdd(SumProducts(scores, w, factors, k - 1),
            FMul(scores[factors[k]], FromRatio(w.num[factors[k]], w.den)))

\* generate_rankings raises KeyError: without a row the results frame has
\* no score column to sort by
ExperienceGenerateRaises(self) == Len(self.data) = 0

\* the result dict of FinalPredictiveModel.generate_rankings for a row
\* and the scores calculate_total_score returned for it
FinalResult(self, w, row, component_scores) ==
  [Team |-> row.Team,
   Conference |-> row.Conference,
   Final_Score |-> SumProducts(component_scores, w, FinalFactors, Len(FinalFactors)),
   Experience |-> row.Experience,
   Star_Count |-> star_count(self, row.Team),
   Tempo_Rank |-> IF tempo_rank(row) = NoTempo THEN 0 ELSE tempo_rank(row),
   KenPom_Rank |-> row.AdjEM_Rank,
   AdjEM |-> row.AdjEM, AdjOE |-> row.AdjOE, AdjDE |-> row.AdjDE,
   AdjOE_Rank |-> row["AdjOE.Rank"], AdjDE_Rank |-> row["AdjDE.Rank"],
   defensive_rating_score |-> component_scores.defensive_rating,
   offensive_rating_score |-> component_scores.offensive_rating,
   recent_performance_score |-> component_scores.recent_performance,
   experience_score |-> component_scores.experience,
   star_power_score |-> component_scores.star_power,
   pace_control_score |-> component_scores.pace_control]

\* the Final_Rank and Rank_Change columns added to the sorted frame
FinalRanked(sorted) ==
  Rows([i \in 1..Len(sorted) |->
          Merge(sorted[i],
                [Final_Rank |-> AssignRank(sorted, i),
                 Rank_Change |-> RankChange(sorted[i].KenPom_Rank, AssignRank(sorted, i))])])

\* FinalPredictiveModel.generate_rankings
final_generate_rankings(self, w) ==
  FinalRanked(
    sort_float_values(
      Rows([i \in 1..Len(self.data) |->
              FinalResult(self, w, self.data[i], FinalScores(self, self.data[i]))]),
      "Final_Score"))

\* ExperienceEnhancedModel.calculate_defensive_rating
EnhancedDefensiveRating(d, team_row) ==
  IF team_row["AdjDE.Rank"] <= 10
  THEN FMin(FromInt(100), FAdd(def_percentile(d, team_row), FromInt(5)))
  ELSE def_percentile(d, team_row)

\* ExperienceEnhancedModel.calculate_offensive_rating
EnhancedOffensiveRating(d, team_row) ==
  IF team_row["AdjOE.Rank"] <= 10
  THEN FMin(FromInt(100), FAdd(off_percentile(d, team_row), FromInt(3)))
  ELSE off_percentile(d, team_row)

\* ExperienceEnhancedModel.calculate_experience_score
calculate_experience_score(d, team_row) ==
  LET exp_value == team_row.Experience
      p0 == exp_percentile(d, team_row)
      p1 == IF exp_value > 25 THEN FMin(FromInt(100), FAdd(p0, FromInt(10)))
            ELSE IF exp_value > 20 THEN FMin(FromInt(100), FAdd(p0, FromInt(5)))
            ELSE p0
  IN  IF exp_value < 15 THEN FMax(FromInt(0), FSub(p1, FromInt(10))) ELSE p1

\* ExperienceEnhancedModel.calculate_recent_performance
EnhancedRecentPerformance(d, team_name) ==
  LET rank == FirstRow(d, team_name).AdjEM_Rank
  IN  IF rank <= 10 THEN 95
      ELSE IF rank <= 25 THEN 85
      ELSE IF rank <= 50 THEN 75
      ELSE IF rank <= 100 THEN 60
      ELSE 45

\* ExperienceEnhancedModel.calculate_consistency
calculate_consistency(d, team_name) ==
  LET team_row == FirstRow(d, team_name)
      rank_diff == Abs(team_row["AdjOE.Rank"] - team_row["AdjDE.Rank"])
  IN  IF rank_diff <= 10 THEN 95
      ELSE IF rank_diff <= 25 THEN 85
      ELSE IF rank_diff <= 50 THEN 70
      ELSE IF rank_diff <= 100 THEN 55
      ELSE 40

\* ExperienceEnhancedModel.calculate_roster_continuity:
\* min(100, max(0, continuity))
calculate_roster_continuity(team_row) ==
  FMin(FromInt(100), FMax(FromInt(0), FromRatio(team_row.Continuity, 10)))

\* ExperienceEnhancedModel.calculate_bench_depth
calculate_bench_depth(team_row) ==
  LET bench_pct == team_row.Bench
  IN  IF 280 <= bench_pct /\ bench_pct <= 350 THEN 90
      ELSE IF 250 <= bench_pct /\ bench_pct <= 380 THEN 75
      ELSE IF 220 <= bench_pct /\ bench_pct <= 400 THEN 60
      ELSE 45

\* the scores dict of ExperienceEnhancedModel.calculate_total_score
EnhancedScores(self, team_row) ==
  [defensive_rating |-> EnhancedDefensiveRating(self.data, team_row),
   offensive_rating |-> EnhancedOffensiveRating(self.data, team_row),
   experience |-> calculate_experience_score(self.data, team_row),
   recent_performance |-> FromInt(EnhancedRecentPerformance(self.data, team_row.Team)),
   consistency |-> FromInt(calculate_consistency(self.data, team_row.Team)),
   roster_continuity |-> calculate_roster_continuity(team_row),
   bench_depth |-> FromInt(calculate_bench_depth(team_row))]

\* the result dict of ExperienceEnhancedModel.generate_rankings for a row
\* and the scores calculate_total_score returned for it
EnhancedResult(w, row, component_scores) ==
  [Team |-> row.Team,
   Conference |-> row.Conference,
   Experience_Score |-> SumProducts(component_scores, w, EnhancedFactors,
                                    Len(EnhancedFactors)),
   Experience_Years |-> row.Experience,
   Experience_Rank |-> row["Experience.Rank"],
   KenPom_Rank |-> row.AdjEM_Rank,
   AdjEM |-> row.AdjEM,
   AdjOE_Rank |-> row["AdjOE.Rank"], AdjDE_Rank |-> row["AdjDE.Rank"],
   Continuity |-> row.Continuity, Bench |-> row.Bench,
   defensive_rating_score |-> component_scores.defensive_rating,
   offensive_rating_score |-> component_scores.offensive_rating,
   experience_score |-> component_scores.experience,
   recent_performance_score |-> component_scores.recent_performance,
   consistency_score |-> component_scores.consistency,
   roster_continuity_score |-> component_scores.roster_continuity,
   bench_depth_score |-> component_scores.bench_depth]

\* the New_Rank and Rank_Change columns added to the sorted frame
EnhancedRanked(sorted) ==
  Rows([i \in 1..Len(sorted) |->
          Merge(sorted[i],
                [New_Rank |-> AssignRank(sorted, i),
                 Rank_Change |-> RankChange(sorted[i].KenPom_Rank, AssignRank(sorted, i))])])

\* ExperienceEnhancedModel.generate_rankings
enhanced_generate_rankings(self, w) ==
  EnhancedRanked(
    sort_float_values(
      Rows([i \in 1..Len(self.data) |->
              EnhancedResult(w, self.data[i], EnhancedScores(self, self.data[i]))]),
      "Experience_Score"))

\* predict_tournament_readiness: the Tournament_Score column,
\* experience_score * 0.40 + defensive_rating_score * 0.40
\*   + offensive_rating_score * 0.20
predict_tournament_readiness(df) ==
  [i \in 1..Len(df) |->
     Merge(df[i],
           [Tournament_Score |->
              FAdd(FAdd(FMul(df[i].experience_score, FromRatio(40, 100)),
                        FMul(df[i].defensive_rating_score, FromRatio(40, 100))),
                   FMul(df[i].offensive_rating_score, FromRatio(20, 100)))])]

\* average years of experience of a roster, in tenths
ExpValues == {10, 17, 20, 23, 25, 31}

\* the experience of the rosters of a table of more than WideTable teams
WideExpValues == {10, 20, 31}

\* the other cells of a team: KenPom rank, efficiencies and their ranks,
\* continuity and bench minutes, tempo rank, and its number of top players
ExpStyles ==
  << [AdjEM_Rank |-> 3, AdjOE |-> 1180, AdjDE |-> 950, oer |-> 5, der |-> 8,
      exp_rank |-> 40, Continuity |-> 623, Bench |-> 301, tempo |-> 20, stars |-> 3],
     [AdjEM_Rank |-> 20, AdjOE |-> 1100, AdjDE |-> 920, oer |-> 22, der |-> 3,
      exp_rank |-> 150, Continuity |-> 452, Bench |-> 262, tempo |-> 320, stars |-> 1],
     [AdjEM_Rank |-> 60, AdjOE |-> 1050, AdjDE |-> 1010, oer |-> 70, der |-> 130,
      exp_rank |-> 300, Continuity |-> 281, Bench |-> 410, tempo |-> 150, stars |-> 0],
     [AdjEM_Rank |-> 40, AdjOE |-> 1120, AdjDE |-> 990, oer |-> 30, der |-> 45,
      exp_rank |-> 90, Continuity |-> 700, Bench |-> 230, tempo |-> 90, stars |-> 2] >>

\* the rest of the division in a large table: rosters of two years, all
\* with the same cells
ExpFiller ==
  [AdjEM_Rank |-> 200, AdjOE |-> 1000, AdjDE |-> 1100, oer |-> 220, der |-> 250,
   exp_rank |-> 200, Continuity |-> 500, Bench |-> 300, tempo |-> 200, stars |-> 0]

ExpStyle(n, i) == IF i <= n THEN ExpStyles[((i - 1) % Len(ExpStyles)) + 1] ELSE ExpFiller

\* a row with one more column
With(row, column, value) == Merge(row, [c \in {column} |-> value])

\* the rows of the four CSVs for n teams of the given experience, or for
\* PaddedLen teams of which the last ones are fillers
ExpRankings(n, len, twice) ==
  [i \in 1..len |->
     LET s == ExpStyle(n, i)
         row == With(With([Team |-> TeamName(i), Conference |-> "ACC",
                           AdjEM_Rank |-> s.AdjEM_Rank, AdjEM |-> s.AdjOE - s.AdjDE,
                           AdjOE |-> s.AdjOE, AdjDE |-> s.AdjDE],
                          "AdjOE.Rank", s.oer), "AdjDE.Rank", s.der)
     IN  IF twice THEN With(row, "Tempo-Adj.Rank", 180) ELSE row]

ExpPersonnel(n, len, exps) ==
  [i \in 1..len |->
     With([Team |-> TeamName(i), Conference |-> "ACC",
           Experience |-> IF i <= n THEN exps[i] ELSE 20,
           Continuity |-> ExpStyle(n, i).Continuity, Bench |-> ExpStyle(n, i).Bench],
          "Experience.Rank", ExpStyle(n, i).exp_rank)]

ExpTempo(n, len, ranked) ==
  [i \in 1..len |->
     IF ranked
     THEN With([Team |-> TeamName(i), Conference |-> "ACC"],
               "Tempo-Adj.Rank", ExpStyle(n, i).tempo)
     ELSE [Team |-> TeamName(i), Conference |-> "ACC"]]

ExpPlayers(n, len) ==
  Flatten([i \in 1..len |->
             [k \in 1..ExpStyle(n, i).stars |->
                [Team |-> TeamName(i), Player |-> "Player" \o ToString(k)]]])

\* what the CSVs of a run may be: all there; the tempo table without its
\* rank column, or the rankings table with a tempo rank of its own; the
\* personnel table without the last team; one of the files not there
ExpShapes ==
  {"complete", "no_tempo_rank", "tempo_rank_twice", "short_personnel",
   "no_personnel", "no_player_stats"}

ExpFiles(n, exps, padded, shape) ==
  LET len == IF padded THEN PaddedLen ELSE n
      personnel == ExpPersonnel(n, len, exps)
  IN  [rankings |-> [exists |-> TRUE, rows |-> ExpRankings(n, len, shape = "tempo_rank_twice")],
       four_factors |-> [exists |-> TRUE],
       personnel |->
         [exists |-> shape # "no_personnel",
          rows |-> IF shape = "short_personnel" THEN SubSeq(personnel, 1, len - 1)
                   ELSE personnel],
       tempo |-> [exists |-> TRUE, rows |-> ExpTempo(n, len, shape # "no_tempo_rank")],
       player_stats |-> [exists |-> shape # "no_player_stats", rows |-> ExpPlayers(n, len)]]

InitExperience ==
  /\ prog = "experience"
  /\ pc = "constructed"
  /\ cls \in ExperienceClasses
  /\ arg = NoArg
  /\ env = NoArg
  /\ out = NoArg
  /\ \E n \in 1..MaxTeams :
      \E exps \in [1..n -> IF n > WideTable THEN WideExpValues ELSE ExpValues] :
       \E padded \in {p \in BOOLEAN : p => n <= SmallTable} :
         \E shape \in {s \in ExpShapes : s # "complete" => n <= SmallTable /\ ~padded} :
           files = ExpFiles(n, exps, padded, shape)
  /\ data = <<>>
  /\ results_df = <<>>
  /\ player_data = <<>>
  /\ weights = [num |-> DefaultWeights[cls], den |-> 100]
  /\ runs = 0

\* FinalPredictiveModel: model.load_all_data()
FinalLoadAllData ==
  /\ prog = "experience"
  /\ cls = "FinalPredictiveModel"
  /\ pc = "constructed"
  /\ ~FinalLoadRaises(files)
  /\ data' = final_load_all_data(files)
  /\ pc' = "loaded"
  /\ UNCHANGED <<prog, cls, arg, env, out, files, results_df, player_data, weights, runs>>

\* ExperienceEnhancedModel: model.load_all_data()
EnhancedLoadAllData ==
  /\ prog = "experience"
  /\ cls = "ExperienceEnhancedModel"
  /\ pc = "constructed"
  /\ ~EnhancedLoadRaises(files)
  /\ data' = enhanced_load_all_data(files)
  /\ pc' = "loaded"
  /\ UNCHANGED <<prog, cls, arg, env, out, files, results_df, player_data, weights, runs>>

\* load_all_data raises FileNotFoundError and ends the script
ExperienceLoadFails ==
  /\ prog = "experience"
  /\ pc = "constructed"
  /\ IF cls = "FinalPredictiveModel" THEN FinalLoadRaises(files)
     ELSE EnhancedLoadRaises(files)
  /\ pc' = "crashed"
  /\ UNCHANGED <<prog, cls, arg, env, out, files, data, results_df, player_data, weights, runs>>

\* FinalPredictiveModel: model.generate_rankings()
FinalGenerateRankings ==
  /\ prog = "experience"
  /\ cls = "FinalPredictiveModel"
  /\ pc = "loaded"
  /\ ~ExperienceGenerateRaises(data)
  /\ results_df' = final_generate_rankings(data, weights)
  /\ pc' = "ranked"
  /\ UNCHANGED <<prog, cls, arg, env, out, files, data, player_data, weights, runs>>

\* ExperienceEnhancedModel: model.generate_rankings()
EnhancedGenerateRankings ==
  /\ prog = "experience"
  /\ cls = "ExperienceEnhancedModel"
  /\ pc = "loaded"
  /\ ~ExperienceGenerateRaises(data)
  /\ results_df' = enhanced_generate_rankings(data, weights)
  /\ pc' = "ranked"
  /\ UNCHANGED <<prog, cls, arg, env, out, files, data, player_data, weights, runs>>

\* generate_rankings raises KeyError on a table without rows and ends the
\* script; self.results_df is the empty frame
ExperienceGenerateFails ==
  /\ prog = "experience"
  /\ pc = "loaded"
  /\ ExperienceGenerateRaises(data)
  /\ results_df' = <<>>
  /\ pc' = "crashed"
  /\ UNCHANGED <<prog, cls, arg, env, out, files, data, player_data, weights, runs>>

\* ExperienceEnhancedModel: model.predict_tournament_readiness()
PredictTournamentReadiness ==
  /\ prog = "experience"
  /\ cls = "ExperienceEnhancedModel"
  /\ pc = "ranked"
  /\ results_df' = predict_tournament_readiness(results_df)
  /\ pc' = "readiness"
  /\ UNCHANGED <<prog, cls, arg, env, out, files, data, player_data, weights, runs>>

NextExperience ==
  \/ FinalLoadAllData
  \/ EnhancedLoadAllData
  \/ ExperienceLoadFails
  \/ FinalGenerateRankings
  \/ EnhancedGenerateRankings
  \/ ExperienceGenerateFails
  \/ PredictTournamentReadiness

SpecExperience == InitExperience /\ [][NextExperience]_vars

(***************************************************************************)
(* The KenPom scraper (scripts/scrape_kenpom.py, scrape_current_data)       *)
(***************************************************************************)

\* what the site does at each request of a run
ScrapeOutcomes ==
  [login : {"ok", "fails"},
   four_factors : {"ok", "fetch_fails", "convert_fails", "empty"},
   tempo_stats : {"ok", "fails"},
   team_stats : {"ok", "fails"},
   games : {"ok", "upsets_fail", "exciting_fails"}]

\* data_collected[name] = df
Collect(collected, name, df) ==
  [n \in (DOMAIN collected) \cup {name} |-> IF n = name THEN df ELSE collected[n]]

NothingCollected == [n \in {} |-> "rows"]

\* a cell of the site's table that is not a number
Dash == 0 - 3

\* pd.to_numeric(..., errors='coerce')
to_numeric(cell) == IF cell = Dash THEN NaN ELSE cell

\* AdjEM = AdjOE - AdjDE on the converted columns, a float difference
AdjEM(row) ==
  IF to_numeric(row.AdjOE) = NaN \/ to_numeric(row.AdjDE) = NaN THEN NaN
  ELSE FloatDifference(to_numeric(row.AdjOE), to_numeric(row.AdjDE))

\* rank(ascending=False, method='first'): ties ranked in row order
rank_first(table, i) ==
  1 + Cardinality({j \in 1..Len(table) :
                     \/ AdjEM(table[j]) > AdjEM(table[i])
                     \/ AdjEM(table[j]) = AdjEM(table[i]) /\ j < i})

\* rank(ascending=False, method='min') of row i
rank_min(table, i) ==
  1 + Cardinality({j \in 1..Len(table) : AdjEM(table[j]) > AdjEM(table[i])})

\* the rank of a NaN margin is NaN, and astype(int) raises on it
RankRaises(table) == \E i \in 1..Len(table) : AdjEM(table[i]) = NaN

\* lines 52-61: the rankings frame, sorted by AdjEM_Rank
scrape_rankings(table) ==
  sort_values_ascending(
    [i \in 1..Len(table) |->
       [Team |-> table[i].Team, AdjEM |-> AdjEM(table[i]), AdjEM_Rank |-> rank_min(table, i),
        AdjOE |-> to_numeric(table[i].AdjOE), AdjDE |-> to_numeric(table[i].AdjDE)]],
    "AdjEM_Rank")

SizeOf(table) == IF Len(table) = 0 THEN "empty" ELSE "rows"

\* step 1: get_fourfactors, the numeric conversion and the rankings frame,
\* in one try block
fetch_four_factors(collected, outcome, table) ==
  IF outcome = "fetch_fails" THEN collected
  ELSE IF RankRaises(table) THEN Collect(collected, "four_factors", SizeOf(table))
  ELSE Collect(Collect(collected, "four_factors", SizeOf(table)), "rankings", SizeOf(table))

\* step 2: get_efficiency
fetch_tempo_stats(collected, outcome) ==
  IF outcome = "fails" THEN collected ELSE Collect(collected, "tempo_stats", "rows")

\* step 3: get_teamstats
fetch_team_stats(collected, outcome) ==
  IF outcome = "fails" THEN collected ELSE Collect(collected, "team_stats", "rows")

\* step 4: the upset games, then the exciting games, in one try block
fetch_game_data(collected, outcome) ==
  IF outcome = "upsets_fail" THEN collected
  ELSE IF outcome = "exciting_fails" THEN Collect(collected, "upset_games", "rows")
  ELSE Collect(Collect(collected, "upset_games", "rows"), "exciting_games", "rows")

TimestampedFile(name) == "kenpom_" \o name \o "_TIMESTAMP.csv"

LatestFile(name) == "kenpom_" \o name \o "_latest.csv"

\* a save loop that writes the 'latest' copy only
save_latest_only(collected) ==
  {LatestFile(n) : n \in {m \in DOMAIN collected : collected[m] = "rows"}}

\* the save loop: both files of every collected frame that is not empty
save_all_data(collected) ==
  UNION {{TimestampedFile(n), LatestFile(n)} :
           n \in {m \in DOMAIN collected : collected[m] = "rows"}}

\* AdjOE and AdjDE cells of the site, in tenths: two pairs with the same
\* margin 23.0, two pairs 15.2 apart whose float margins differ
\* (15.199999999999989 and 15.200000000000003), and a row with a cell that
\* is not a number
Efficiencies ==
  {<<1180, 950>>, <<1100, 870>>, <<1006, 854>>, <<1103, 951>>, <<Dash, 900>>}

FourFactorsTable(cells) ==
  [i \in 1..Len(cells) |-> [Team |-> TeamName(i), AdjOE |-> cells[i][1], AdjDE |-> cells[i][2]]]

\* the tables get_fourfactors can return; the outcome names what step 1
\* makes of the table
FourFactorsTables(outcome) ==
  IF outcome = "empty" THEN {<<>>}
  ELSE IF outcome = "fetch_fails" THEN {FourFactorsTable(<<<<1180, 950>>>>)}
  ELSE {t \in {FourFactorsTable(cells) : cells \in UNION {[1..n -> Efficiencies] : n \in 1..MaxTeams}} :
          RankRaises(t) <=> outcome = "convert_fails"}

InitScrape ==
  /\ prog = "scrape"
  /\ pc = "login"
  /\ cls = "scrape_kenpom"
  /\ arg = NoArg
  /\ env \in ScrapeOutcomes
  /\ out = {}
  /\ files \in FourFactorsTables(env.four_factors)
  /\ data = NothingCollected
  /\ results_df = <<>>
  /\ player_data = <<>>
  /\ weights = NoArg
  /\ runs = 0

\* browser = login(EMAIL, PASSWORD)
Login ==
  /\ prog = "scrape"
  /\ pc = "login"
  /\ env.login = "ok"
  /\ pc' = "fetch_four_factors"
  /\ UNCHANGED <<prog, cls, arg, env, out, files, data, results_df, player_data, weights, runs>>

\* login raises: "Login failed" is printed and the function returns
LoginFails ==
  /\ prog = "scrape"
  /\ pc = "login"
  /\ env.login = "fails"
  /\ pc' = "stopped"
  /\ UNCHANGED <<prog, cls, arg, env, out, files, data, results_df, player_data, weights, runs>>

FetchFourFactors ==
  /\ prog = "scrape"
  /\ pc = "fetch_four_factors"
  /\ data' = fetch_four_factors(data, env.four_factors, files)
  /\ results_df' = IF env.four_factors = "fetch_fails" \/ RankRaises(files) THEN results_df
                    ELSE scrape_rankings(files)
  /\ pc' = "fetch_tempo_stats"
  /\ UNCHANGED <<prog, cls, arg, env, out, files, player_data, weights, runs>>

FetchTempoStats ==
  /\ prog = "scrape"
  /\ pc = "fetch_tempo_stats"
  /\ data' = fetch_tempo_stats(data, env.tempo_stats)
  /\ pc' = "fetch_team_stats"
  /\ UNCHANGED <<prog, cls, arg, env, out, files, results_df, player_data, weights, runs>>

FetchTeamStats ==
  /\ prog = "scrape"
  /\ pc = "fetch_team_stats"
  /\ data' = fetch_team_stats(data, env.team_stats)
  /\ pc' = "fetch_game_data"
  /\ UNCHANGED <<prog, cls, arg, env, out, files, results_df, player_data, weights, runs>>

FetchGameData ==
  /\ prog = "scrape"
  /\ pc = "fetch_game_data"
  /\ data' = fetch_game_data(data, env.games)
  /\ pc' = "save"
  /\ UNCHANGED <<prog, cls, arg, env, out, files, results_df, player_data, weights, runs>>

SaveAllData ==
  /\ prog = "scrape"
  /\ pc = "save"
  /\ out' = out \cup save_all_data(data)
  /\ pc' = "done"
  /\ UNCHANGED <<prog, cls, arg, env, files, data, results_df, player_data, weights, runs>>

NextScrape ==
  \/ Login
  \/ LoginFails
  \/ FetchFourFactors
  \/ FetchTempoStats
  \/ FetchTeamStats
  \/ FetchGameData
  \/ SaveAllData

SpecScrape == InitScrape /\ [][NextScrape]_vars

(***************************************************************************)
(* Era assignment of the two SWISH calculators on its own                   *)
(***************************************************************************)

EraPlayerNames ==
  {"Bill Russell", "Kobe Bryant", "Russell Westbrook", "LeBron James", "Role Player"}

\* start_year of a row: column absent, cell empty, or a year
StartYears == {NA, NaN, 1957, 1996, 2008}

\* career_start and career_end of a row
CareerYears ==
  {<<NA, NA>>, <<NaN, NaN>>, <<1996, NaN>>, <<1996, 2016>>, <<1956, 1969>>}

InitEra ==
  /\ prog \in {"era1", "era2"}
  /\ pc = "start"
  /\ cls = (IF prog = "era1" THEN "SwishScoreCalculator" ELSE "SwishScoreCalculatorV2")
  /\ arg = NoArg
  /\ env = NoArg
  /\ out = NoArg
  /\ \E name \in EraPlayerNames, start_year \in StartYears, career \in CareerYears :
       files = <<[name |-> name, start_year |-> start_year,
                  career_start |-> career[1], career_end |-> career[2]]>>
  /\ data = <<>>
  /\ results_df = <<>>
  /\ player_data = <<>>
  /\ weights = NoArg
  /\ runs = 0

\* player_era = self.get_player_era(player), swish_score_calculator.py
GetPlayerEraV1 ==
  /\ prog = "era1"
  /\ pc = "start"
  /\ player_data' = [i \in 1..Len(files) |->
                       Merge(files[i], [era |-> get_player_era(files[i])])]
  /\ pc' = "assigned"
  /\ UNCHANGED <<prog, cls, arg, env, out, files, data, results_df, weights, runs>>

\* self.assign_player_eras(), swish_score_calculator_v2.py
AssignPlayerErasV2 ==
  /\ prog = "era2"
  /\ pc = "start"
  /\ player_data' = [i \in 1..Len(files) |->
                       Merge(files[i], [era |-> assign_player_eras(files[i])])]
  /\ pc' = "assigned"
  /\ UNCHANGED <<prog, cls, arg, env, out, files, data, results_df, weights, runs>>

NextEra ==
  \/ GetPlayerEraV1
  \/ AssignPlayerErasV2

SpecEra == InitEra /\ [][NextEra]_vars

(***************************************************************************)
(* The deployment script (deploy_updates.py)                                *)
(***************************************************************************)

\* files_to_add
FilesToAdd ==
  <<"nba_goat_rankings_swish.csv", "nba_goat_rankings_swish_v2.csv",
    "swish_score_calculator_v2.py", "*.py">>

\* what the operator answers at the two prompts (or the input stream ends)
\* and whether each command exits with status 0, the git add of each of
\* the files to add included
DeployOutcomes ==
  [run_calculator : {"y", "n", "eof"},
   calculator_ok : BOOLEAN,
   stage_ok : [DOMAIN FilesToAdd -> BOOLEAN],
   commit_ok : BOOLEAN,
   push : {"y", "Y", "n", "eof"},
   push_main_ok : BOOLEAN,
   push_master_ok : BOOLEAN]

\* what the run has done so far: the commands handed to the shell, in order,
\* the result of run_command for the commit and for a push (the results for
\* the calculator and for the four git add are dropped), and whether the
\* DEPLOYMENT SUMMARY was printed
NothingDeployed ==
  [commands |-> <<>>, committed |-> FALSE, pushed |-> FALSE, summary |-> FALSE]

\* str.lower() on the answers the prompts can get
lower(answer) == IF answer = "Y" THEN "y" ELSE answer

PushMain == "git push origin main"

PushMaster == "git push origin master"

\* run_command: True when the command exits with status 0, False (after
\* printing the error) when subprocess.run raises CalledProcessError
run_command(exits_zero) == exits_zero

InitDeploy ==
  /\ prog = "deploy"
  /\ pc = "start"
  /\ cls = "deploy_updates"
  /\ arg = NoArg
  /\ env \in DeployOutcomes
  /\ out = NothingDeployed
  /\ files = <<>>
  /\ data = <<>>
  /\ results_df = <<>>
  /\ player_data = <<>>
  /\ weights = NoArg
  /\ runs = 0

\* step 1: git status, whatever it returns, up to the first prompt
CheckGitStatus ==
  /\ prog = "deploy"
  /\ pc = "start"
  /\ out' = [out EXCEPT !.commands = <<"git status">>]
  /\ pc' = "run_calculator"
  /\ UNCHANGED <<prog, cls, arg, env, files, data, results_df, player_data, weights, runs>>

\* steps 2 and 3, once the first prompt is answered: the calculator when
\* asked for, then git add for each of the files to add, whatever the
\* commands return
RunCalculatorAndStage ==
  /\ prog = "deploy"
  /\ pc = "run_calculator"
  /\ env.run_calculator # "eof"
  /\ out' = [out EXCEPT
               !.commands = @ \o (IF lower(env.run_calculator) = "y"
                                    THEN <<"python swish_score_calculator_v2.py">> ELSE <<>>)
                              \o [k \in DOMAIN FilesToAdd |-> "git add " \o FilesToAdd[k]]]
  /\ pc' = "commit"
  /\ UNCHANGED <<prog, cls, arg, env, files, data, results_df, player_data, weights, runs>>

\* input() raises EOFError: "Deployment failed" and sys.exit(1)
PromptFails ==
  /\ prog = "deploy"
  /\ \/ pc = "run_calculator" /\ env.run_calculator = "eof"
     \/ pc = "push" /\ env.push = "eof"
  /\ pc' = "failed"
  /\ UNCHANGED <<prog, cls, arg, env, out, files, data, results_df, player_data, weights, runs>>

\* steps 4 and 5: git commit; a failure only prints a message
Commit ==
  /\ prog = "deploy"
  /\ pc = "commit"
  /\ out' = [out EXCEPT !.commands = @ \o <<"git commit">>,
                        !.committed = run_command(env.commit_ok)]
  /\ pc' = "push"
  /\ UNCHANGED <<prog, cls, arg, env, files, data, results_df, player_data, weights, runs>>

\* step 6 with the prompt left out: the pushes whatever the answer was
PushWithoutAsking ==
  /\ prog = "deploy"
  /\ pc = "push"
  /\ env.push # "eof"
  /\ out' = [out EXCEPT
               !.commands = @ \o <<PushMain>>
                              \o (IF run_command(env.push_main_ok) THEN <<>> ELSE <<PushMaster>>),
               !.pushed = run_command(env.push_main_ok) \/ run_command(env.push_master_ok)]
  /\ pc' = "summary"
  /\ UNCHANGED <<prog, cls, arg, env, files, data, results_df, player_data, weights, runs>>

\* step 6: git push origin main, then origin master, when asked for
Push ==
  /\ prog = "deploy"
  /\ pc = "push"
  /\ env.push # "eof"
  /\ out' = [out EXCEPT
               !.commands = @ \o (IF lower(env.push) # "y" THEN <<>>
                                  ELSE IF run_command(env.push_main_ok) THEN <<PushMain>>
                                  ELSE <<PushMain, PushMaster>>),
               !.pushed =
                 /\ lower(env.push) = "y"
                 /\ run_command(env.push_main_ok) \/ run_command(env.push_master_ok)]
  /\ pc' = "summary"
  /\ UNCHANGED <<prog, cls, arg, env, files, data, results_df, player_data, weights, runs>>

\* step 7: the DEPLOYMENT SUMMARY with its four check marks
Summary ==
  /\ prog = "deploy"
  /\ pc = "summary"
  /\ out' = [out EXCEPT !.summary = TRUE]
  /\ pc' = "done"
  /\ UNCHANGED <<prog, cls, arg, env, files, data, results_df, player_data, weights, runs>>

NextDeploy ==
  \/ CheckGitStatus
  \/ RunCalculatorAndStage
  \/ PromptFails
  \/ Commit
  \/ Push
  \/ Summary

SpecDeploy == InitDeploy /\ [][NextDeploy]_vars

(***************************************************************************)
(* scripts/game_predictions.py and scripts/validate_model.py: matchups     *)
(* predicted from the score column of a rankings file.  The cells of the   *)
(* score column are in hundredths of a point; predict_game works on the    *)
(* floats read from them, simulate_matchups is taken with margins in       *)
(* 1/10000 of a point, so that abs(score_diff) * 0.3 is a whole number.    *)
(***************************************************************************)
\* predicted_margin = score_diff * 0.35
MarginOf(score_diff) == FMul(score_diff, FromRatio(35, 100))

\* the 3.5 points of home court advantage
HomeCourt == FromRatio(35, 10)

None == [kind |-> "None"]

IndexError == [kind |-> "IndexError"]

Locations == {"neutral", "home", "away"}

\* how a team stands in the two files: listed in both with a lower or a
\* higher score, missing from the rankings file, or ranked but missing from
\* the KenPom file
PredictKinds == {"low", "high", "unlisted", "no_kenpom"}

\* 60.10 and 70.10: ten points apart as decimals, a little less as floats
PredictScore(kind) == IF kind = "low" THEN 6010 ELSE 7010

\* the rankings file is written by sort_values(score, ascending=False)
RankingsFile(kinds) ==
  sort_values([i \in 1..Len(kinds) |-> [Team |-> TeamName(i), Score |-> PredictScore(kinds[i]),
                                       listed |-> kinds[i] # "unlisted"]],
              "Score")

KenPomFile(kinds) ==
  SelectSeq([i \in 1..Len(kinds) |-> [Team |-> TeamName(i), listed |-> kinds[i] # "no_kenpom"]],
            LAMBDA r : r.listed)

PredictFiles(kinds) ==
  [rankings |-> SelectSeq(RankingsFile(kinds), LAMBDA r : r.listed),
   kenpom |-> KenPomFile(kinds)]

\* get_team_data: None when the rankings have no row for the team; .iloc[0]
\* on the empty KenPom selection raises IndexError.  our_score is the float
\* read_csv made of the cell
get_team_data(d, team_name) ==
  LET our_data == SelectSeq(d.rankings, LAMBDA r : r.Team = team_name)
      kp_data == SelectSeq(d.kenpom, LAMBDA r : r.Team = team_name)
  IN  IF Len(our_data) = 0 THEN None
      ELSE IF Len(kp_data) = 0 THEN IndexError
      ELSE [kind |-> "team", team |-> team_name,
            our_score |-> FromRatio(our_data[1].Score, 100)]

\* predict_game with the away branch left out
predict_game_without_away(d, team1_name, team2_name, location) ==
  LET team1 == get_team_data(d, team1_name)
      team2 == get_team_data(d, team2_name)
      score_diff == FSub(team1.our_score, team2.our_score)
      predicted_margin == IF location = "home" THEN FAdd(MarginOf(score_diff), HomeCourt)
                          ELSE MarginOf(score_diff)
  IN  IF team1 = IndexError \/ team2 = IndexError THEN IndexError
      ELSE IF team1 = None \/ team2 = None THEN None
      ELSE [kind |-> "result", team1 |-> team1_name, team2 |-> team2_name,
            predicted_margin |-> predicted_margin, location |-> location,
            winner |-> IF FLess(FZero, predicted_margin) THEN team1_name ELSE team2_name]

\* predict_game: both teams are looked up first; the margin, the location
\* adjustment and the winner printed at lines 100-103 (and again by the
\* summary, 228).  The projected scores and the win probability, which no
\* later step reads, are left out of the result
predict_game(d, team1_name, team2_name, location) ==
  LET team1 == get_team_data(d, team1_name)
      team2 == get_team_data(d, team2_name)
      score_diff == FSub(team1.our_score, team2.our_score)
      predicted_margin == IF location = "home" THEN FAdd(MarginOf(score_diff), HomeCourt)
                          ELSE IF location = "away" THEN FSub(MarginOf(score_diff), HomeCourt)
                          ELSE MarginOf(score_diff)
  IN  IF team1 = IndexError \/ team2 = IndexError THEN IndexError
      ELSE IF team1 = None \/ team2 = None THEN None
      ELSE [kind |-> "result", team1 |-> team1_name, team2 |-> team2_name,
            predicted_margin |-> predicted_margin, location |-> location,
            winner |-> IF FLess(FZero, predicted_margin) THEN team1_name ELSE team2_name]

\* one line of simulate_matchups: the pick and the margin for a pair
simulate_matchup(rankings, team1, team2) ==
  LET t1 == SelectSeq(rankings, LAMBDA r : r.Team = team1)[1]
      t2 == SelectSeq(rankings, LAMBDA r : r.Team = team2)[1]
      score_diff == t1.Score - t2.Score
  IN  [team1 |-> team1, team2 |-> team2,
       winner |-> IF score_diff > 0 THEN team1 ELSE team2,
       margin |-> Abs(score_diff) * 30]

\* simulate_matchups: first against last of the top ten, second against
\* second to last, ... (the rivalry pairs need teams of fixed names)
simulate_matchups(rankings) ==
  LET top_10 == SubSeq(rankings, 1, Min(10, Len(rankings)))
  IN  [i \in 1..Min(5, Len(top_10) \div 2) |->
         simulate_matchup(rankings, top_10[i].Team, top_10[Len(top_10) + 1 - i].Team)]

InitPredict ==
  /\ prog = "predict"
  /\ pc = "load"
  /\ cls \in {"GamePredictor", "ModelValidator"}
  /\ arg = NoArg
  /\ env = NoArg
  /\ out = NoArg
  /\ \E n \in 2..MaxTeams : \E kinds \in [1..n -> PredictKinds] :
       files = PredictFiles(kinds)
  /\ data = <<>>
  /\ results_df = <<>>
  /\ player_data = <<>>
  /\ weights = NoArg
  /\ runs = 0

\* load_rankings / load_data: both files are read
LoadRankings ==
  /\ prog = "predict"
  /\ pc = "load"
  /\ data' = files
  /\ pc' = "loaded"
  /\ UNCHANGED <<prog, cls, arg, env, out, files, results_df, player_data, weights, runs>>

\* predict_game returns a result or None
PredictGame ==
  /\ prog = "predict"
  /\ cls = "GamePredictor"
  /\ pc = "loaded"
  /\ \E team1 \in 1..MaxTeams, team2 \in 1..MaxTeams, location \in Locations :
       /\ predict_game(data, TeamName(team1), TeamName(team2), location) # IndexError
       /\ arg' = [team1 |-> TeamName(team1), team2 |-> TeamName(team2), location |-> location]
       /\ out' = predict_game(data, TeamName(team1), TeamName(team2), location)
  /\ pc' = "predicted"
  /\ UNCHANGED <<prog, cls, env, files, data, results_df, player_data, weights, runs>>

\* predict_game raises
PredictGameFails ==
  /\ prog = "predict"
  /\ cls = "GamePredictor"
  /\ pc = "loaded"
  /\ \E team1 \in 1..MaxTeams, team2 \in 1..MaxTeams, location \in Locations :
       /\ predict_game(data, TeamName(team1), TeamName(team2), location) = IndexError
       /\ arg' = [team1 |-> TeamName(team1), team2 |-> TeamName(team2), location |-> location]
  /\ out' = IndexError
  /\ pc' = "failed"
  /\ UNCHANGED <<prog, cls, env, files, data, results_df, player_data, weights, runs>>

SimulateMatchups ==
  /\ prog = "predict"
  /\ cls = "ModelValidator"
  /\ pc = "loaded"
  /\ out' = simulate_matchups(data.rankings)
  /\ pc' = "simulated"
  /\ UNCHANGED <<prog, cls, arg, env, files, data, results_df, player_data, weights, runs>>

NextPredict ==
  \/ LoadRankings
  \/ PredictGame
  \/ PredictGameFails
  \/ SimulateMatchups

SpecPredict == InitPredict /\ [][NextPredict]_vars

(***************************************************************************)
(* scripts/weighted_model_v2.py: WeightedPowerRankingModel.  The cells     *)
(* AdjOE, AdjDE and AdjEM of the rankings are in tenths; the scores are    *)
(* the floats the code computes.  The min-max scores divide numpy numbers: *)
(* zero divided by zero gives NaN and any other number divided by zero an  *)
(* infinity, and neither raises.                                           *)
(***************************************************************************)
\* low <= x <= high; every comparison with NaN is false
Between(x, low, high) == FLessEq(FromInt(low), x) /\ FLessEq(x, FromInt(high))

Equals(x, value) == FLessEq(x, FromInt(value)) /\ FLessEq(FromInt(value), x)

ColumnMax(rows, column) ==
  CHOOSE m \in {rows[i][column] : i \in 1..Len(rows)} :
    \A i \in 1..Len(rows) : rows[i][column] <= m

ColumnMin(rows, column) ==
  CHOOSE m \in {rows[i][column] : i \in 1..Len(rows)} :
    \A i \in 1..Len(rows) : rows[i][column] >= m

\* the float of a cell in tenths
Tenth(cell) == FromRatio(cell, 10)

\* the largest and the smallest of a set of floats that are numbers
FMaxOf(xs) == CHOOSE m \in xs : \A x \in xs : FLessEq(x, m)

FMinOf(xs) == CHOOSE m \in xs : \A x \in xs : FLessEq(m, x)

\* 100 * (value - low) / (high - low)
MinMax(value, low, high) == FDiv(FMul(FromInt(100), FSub(value, low)), FSub(high, low))

\* 100 * (row['AdjOE'] - min_oe) / (max_oe - min_oe)
calculate_offensive_score(rankings, row) ==
  MinMax(Tenth(row.AdjOE), Tenth(ColumnMin(rankings, "AdjOE")),
         Tenth(ColumnMax(rankings, "AdjOE")))

\* 100 * (max_de - row['AdjDE']) / (max_de - min_de)
calculate_defensive_score(rankings, row) ==
  FDiv(FMul(FromInt(100), FSub(Tenth(ColumnMax(rankings, "AdjDE")), Tenth(row.AdjDE))),
       FSub(Tenth(ColumnMax(rankings, "AdjDE")), Tenth(ColumnMin(rankings, "AdjDE"))))

\* momentum_score * 0.8 + 20
Compressed(momentum_score) == FAdd(FMul(momentum_score, FromRatio(8, 10)), FromInt(20))

\* calculate_momentum_score: 50 for an unknown team, else
\* 100 * (total_teams - rank) / (total_teams - 1) * 0.8 + 20
calculate_momentum_score(rankings, team_name) ==
  LET team_row == SelectSeq(rankings, LAMBDA r : r.Team = team_name)
      total_teams == Len(rankings)
  IN  IF Len(team_row) = 0 THEN FromInt(50)
      ELSE Compressed(FDiv(FromInt(100 * (total_teams - team_row[1].AdjEM_Rank)),
                           FromInt(total_teams - 1)))

PowerConferences == {"SEC", "B12", "B10", "ACC", "BE"}

\* calculate_schedule_strength_score:
\* min(100, base_score + (100 - row['AdjEM_Rank']) / 10)
calculate_schedule_strength_score(row) ==
  LET base_score == IF row.Conference \in PowerConferences THEN 80
                    ELSE IF row.Conference \in {"Amer", "A10", "MWC", "WCC"} THEN 65
                    ELSE 50
  IN  FMin(FromInt(100), FAdd(FromInt(base_score), FromRatio(100 - row.AdjEM_Rank, 10)))

\* self.rankings['AdjOE'] - self.rankings['AdjDE']
AllMargins(rankings) ==
  {FSub(Tenth(rankings[i].AdjOE), Tenth(rankings[i].AdjDE)) : i \in 1..Len(rankings)}

\* calculate_dominance_score:
\* 100 * (margin - min_margin) / (max_margin - min_margin)
calculate_dominance_score(rankings, row) ==
  MinMax(FSub(Tenth(row.AdjOE), Tenth(row.AdjDE)),
         FMinOf(AllMargins(rankings)), FMaxOf(AllMargins(rankings)))

\* the scores dict of calculate_weighted_score
WeightedScores(rankings, row) ==
  [offensive_efficiency |-> calculate_offensive_score(rankings, row),
   defensive_efficiency |-> calculate_defensive_score(rankings, row),
   momentum |-> calculate_momentum_score(rankings, row.Team),
   schedule_strength |-> calculate_schedule_strength_score(row),
   dominance |-> calculate_dominance_score(rankings, row)]

\* total_score = 0; total_score += self.weights[factor] * score, for the
\* first k factors of the scores dict
RECURSIVE WeightedTotal(_, _, _, _)
WeightedTotal(scores, w, factors, k) ==
  IF k = 0 THEN FromInt(0)
  ELSE FAdd(WeightedTotal(scores, w, factors, k - 1),
            FMul(w.stored[factors[k]], scores[factors[k]]))

\* the result dict of generate_rankings for a row and its scores
WeightedResult(row, w, scores) ==
  [Team |-> row.Team, Conference |-> row.Conference,
   Weighted_Score |-> WeightedTotal(scores, w, WeightKeys.WeightedPowerRankingModel,
                                    Len(WeightKeys.WeightedPowerRankingModel)),
   KenPom_Rank |-> row.AdjEM_Rank, AdjEM |-> row.AdjEM,
   AdjOE |-> row.AdjOE, AdjDE |-> row.AdjDE,
   offensive_efficiency_score |-> scores.offensive_efficiency,
   defensive_efficiency_score |-> scores.defensive_efficiency,
   momentum_score |-> scores.momentum,
   schedule_strength_score |-> scores.schedule_strength,
   dominance_score |-> scores.dominance]

\* the Weighted_Rank and Rank_Diff columns added to the sorted frame
WeightedRanked(sorted) ==
  Rows([i \in 1..Len(sorted) |->
          Merge(sorted[i],
                [Weighted_Rank |-> AssignRank(sorted, i),
                 Rank_Diff |-> sorted[i].KenPom_Rank - AssignRank(sorted, i)])])

\* generate_rankings of the weighted model
weighted_generate_rankings(rankings, w) ==
  WeightedRanked(
    sort_float_values(
      Rows([i \in 1..Len(rankings) |->
              WeightedResult(rankings[i], w, WeightedScores(rankings, rankings[i]))]),
      "Weighted_Score"))

\* the conference of the i-th row of a rankings table
ConferenceOf(i) == IF i % 3 = 1 THEN "ACC" ELSE IF i % 3 = 2 THEN "WCC" ELSE "SWAC"

\* kenpom_rankings_latest.csv as the scraper writes it, with the Conference
\* column of the four factors table
WithConferences(rankings) ==
  Rows([i \in 1..Len(rankings) |-> With(rankings[i], "Conference", ConferenceOf(i))])

\* the AdjOE and AdjDE cells of a table of n teams; tables above WideTable
\* take them from two teams
WeightedCells(n) ==
  IF n <= WideTable THEN Efficiencies \ {<<Dash, 900>>} ELSE {<<1180, 950>>, <<1103, 951>>}

WeightedRankings ==
  {WithConferences(scrape_rankings(FourFactorsTable(cells))) :
     cells \in UNION {[1..n -> WeightedCells(n)] : n \in 1..MaxTeams}}

InitWeighted ==
  /\ prog = "weighted"
  /\ pc = "constructed"
  /\ cls = "WeightedPowerRankingModel"
  /\ arg = NoArg
  /\ env = NoArg
  /\ out = NoArg
  /\ files \in WeightedRankings
  /\ data = <<>>
  /\ results_df = <<>>
  /\ player_data = <<>>
  /\ weights = InitWeights("WeightedPowerRankingModel", NoArg)
  /\ runs = 0

\* load_data: self.rankings
WeightedLoadData ==
  /\ prog = "weighted"
  /\ pc = "constructed"
  /\ data' = files
  /\ pc' = "loaded"
  /\ UNCHANGED <<prog, cls, arg, env, out, files, results_df, player_data, weights, runs>>

\* calculate_weighted_score(row): the scores dict of a row of the rankings
ScoreRow ==
  /\ prog = "weighted"
  /\ pc = "loaded"
  /\ \E i \in 1..Len(data) :
       /\ arg' = [row |-> i, team_name |-> data[i].Team]
       /\ out' = WeightedScores(data, data[i])
  /\ pc' = "scored"
  /\ UNCHANGED <<prog, cls, env, files, data, results_df, player_data, weights, runs>>

\* calculate_momentum_score for a name that has no row
ScoreUnknownTeam ==
  /\ prog = "weighted"
  /\ pc = "loaded"
  /\ \E team \in 1..(MaxTeams + 1) :
       /\ \A i \in 1..Len(data) : data[i].Team # TeamName(team)
       /\ arg' = [row |-> 0, team_name |-> TeamName(team)]
       /\ out' = [momentum |-> calculate_momentum_score(data, TeamName(team))]
  /\ pc' = "scored"
  /\ UNCHANGED <<prog, cls, env, files, data, results_df, player_data, weights, runs>>

\* model.generate_rankings()
WeightedGenerateRankings ==
  /\ prog = "weighted"
  /\ pc = "loaded"
  /\ results_df' = weighted_generate_rankings(data, weights)
  /\ pc' = "ranked"
  /\ UNCHANGED <<prog, cls, arg, env, out, files, data, player_data, weights, runs>>

NextWeighted ==
  \/ WeightedLoadData
  \/ ScoreRow
  \/ ScoreUnknownTeam
  \/ WeightedGenerateRankings

SpecWeighted == InitWeighted /\ [][NextWeighted]_vars

(***************************************************************************)
(* PredictivePowerRankingModel (scripts/predictive_model.py),              *)
(* DefenseFocusedPredictiveModel (scripts/defense_focused_model.py),       *)
(* FinalPredictiveModelV2 (scripts/final_model_v2.py) and the              *)
(* FinalPredictiveModel of scripts/final_predictive_model_clean.py, here   *)
(* FinalPredictiveModelClean.  The first two keep the tables they read,    *)
(* the other two merge them into self.data.  Cells are in tenths as above, *)
(* scores are floats.                                                      *)
(***************************************************************************)
TableClasses == {"PredictivePowerRankingModel", "DefenseFocusedPredictiveModel"}

MergingClasses == {"FinalPredictiveModelV2", "FinalPredictiveModelClean"}

RankerClasses == TableClasses \cup MergingClasses

\* load_data of the predictive and of the defense-focused model raises
\* FileNotFoundError
TablesLoadRaises(f) == ~f.rankings.exists \/ ~f.four_factors.exists \/ ~f.tempo.exists

\* PredictivePowerRankingModel.load_data; self.games and self.upsets are
\* read by no method
predictive_load_data(f) ==
  [rankings |-> f.rankings.rows, four_factors |-> f.four_factors.rows,
   tempo_stats |-> f.tempo.rows]

\* DefenseFocusedPredictiveModel.load_data
defense_load_data(f) ==
  [rankings |-> f.rankings.rows, four_factors |-> f.four_factors.rows,
   tempo_stats |-> f.tempo.rows]

\* load_all_data of FinalPredictiveModelV2 and of the clean model raises
\* FileNotFoundError
MergedLoadRaises(f) == ~f.rankings.exists \/ ~f.personnel.exists \/ ~f.tempo.exists

\* FinalPredictiveModelV2.load_all_data: rankings, personnel and tempo
\* merged on Team, without the Conference columns of personnel and tempo
final_v2_load_all_data(f) ==
  [data |-> DropConferenceColumns(
              Rows(merge(merge(f.rankings.rows, f.personnel.rows, "_pers"),
                         f.tempo.rows, "_tempo")))]

\* load_all_data of the clean model
clean_load_all_data(f) ==
  [data |-> DropConferenceColumns(
              Rows(merge(merge(f.rankings.rows, f.personnel.rows, "_pers"),
                         f.tempo.rows, "_tempo")))]

\* PredictivePowerRankingModel.calculate_adjusted_efficiency: the min-max
\* score of the margin, 2 more for a top-5% offense or defense, at most
\* 100.  min(100, x) is 100 when x is NaN
calculate_adjusted_efficiency(rankings, team_row) ==
  LET offense_percentile ==
        FMul(FromInt(100),
             FSub(FromInt(1), FromRatio(team_row["AdjOE.Rank"], Len(rankings))))
      defense_percentile ==
        FMul(FromInt(100),
             FSub(FromInt(1), FromRatio(team_row["AdjDE.Rank"], Len(rankings))))
      em_normalized == MinMax(FSub(Tenth(team_row.AdjOE), Tenth(team_row.AdjDE)),
                              FMinOf(AllMargins(rankings)), FMaxOf(AllMargins(rankings)))
  IN  IF FLess(FromInt(95), offense_percentile) \/ FLess(FromInt(95), defense_percentile)
      THEN FMin(FromInt(100), FAdd(em_normalized, FromInt(2)))
      ELSE FMin(FromInt(100), em_normalized)

\* PredictivePowerRankingModel.calculate_recent_performance
PredictiveRecentPerformance(rankings, team_name) ==
  LET current_rank == FirstRow(rankings, team_name).AdjEM_Rank
  IN  IF current_rank <= 10 THEN 90
      ELSE IF current_rank <= 25 THEN 80
      ELSE IF current_rank <= 50 THEN 70
      ELSE IF current_rank <= 100 THEN 60
      ELSE 50

\* PredictivePowerRankingModel.calculate_consistency
PredictiveConsistency(four_factors, team_name) ==
  LET team_ff == SelectSeq(four_factors, LAMBDA r : r.Team = team_name)
      rank_diff == Abs(team_ff[1]["AdjOE.Rank"] - team_ff[1]["AdjDE.Rank"])
  IN  IF Len(team_ff) = 0 THEN 50
      ELSE IF rank_diff < 20 THEN 85
      ELSE IF rank_diff < 50 THEN 70
      ELSE IF rank_diff < 100 THEN 55
      ELSE 40

\* PredictivePowerRankingModel.calculate_pace_flexibility
calculate_pace_flexibility(self, team_name) ==
  LET team_tempo == SelectSeq(self.tempo_stats, LAMBDA r : r.Team = team_name)
      adj_tempo_rank == team_tempo[1]["Tempo-Adj.Rank"]
      flexibility == IF 100 <= adj_tempo_rank /\ adj_tempo_rank <= 200 THEN 80
                     ELSE IF 50 <= adj_tempo_rank /\ adj_tempo_rank <= 250 THEN 65
                     ELSE 50
  IN  IF Len(team_tempo) = 0 THEN 50
      ELSE IF FirstRow(self.rankings, team_name).AdjEM_Rank <= 25
      THEN Min(100, flexibility + 15)
      ELSE flexibility

\* PredictivePowerRankingModel.calculate_experience
PredictiveExperience(rankings, team_name) ==
  LET team_row == FirstRow(rankings, team_name)
      base_experience == IF team_row.Conference \in PowerConferences THEN 70 ELSE 50
  IN  IF team_row.AdjEM_Rank <= 50 THEN Min(100, base_experience + 10)
      ELSE Min(100, base_experience)

AltitudeTeams ==
  {"Air Force", "Colorado", "Colorado St.", "Denver", "New Mexico", "Utah St.",
   "Wyoming", "Nevada"}

ToughVenues ==
  {"Duke", "Kansas", "Gonzaga", "Michigan St.", "Purdue", "Arizona", "Kentucky",
   "North Carolina"}

\* PredictivePowerRankingModel.calculate_altitude_travel
calculate_altitude_travel(team_name) ==
  IF team_name \in AltitudeTeams THEN 85
  ELSE IF team_name \in ToughVenues THEN 75
  ELSE 60

\* PredictivePowerRankingModel.calculate_injury_adjustment
calculate_injury_adjustment(team_name) == 75

\* the scores dict of calculate_predictive_score
PredictiveScores(self, team_row) ==
  [adjusted_efficiency |-> calculate_adjusted_efficiency(self.rankings, team_row),
   recent_performance |-> FromInt(PredictiveRecentPerformance(self.rankings, team_row.Team)),
   consistency |-> FromInt(PredictiveConsistency(self.four_factors, team_row.Team)),
   pace_flexibility |-> FromInt(calculate_pace_flexibility(self, team_row.Team)),
   experience |-> FromInt(PredictiveExperience(self.rankings, team_row.Team)),
   altitude_travel |-> FromInt(calculate_altitude_travel(team_row.Team)),
   injury_adjustment |-> FromInt(calculate_injury_adjustment(team_row.Team))]

\* the result dict of PredictivePowerRankingModel.generate_rankings for a
\* row and the scores calculate_predictive_score returned for it
PredictiveResult(w, row, component_scores) ==
  [Team |-> row.Team, Conference |-> row.Conference,
   Predictive_Score |-> SumProducts(component_scores, w,
                                    WeightKeys.PredictivePowerRankingModel,
                                    Len(WeightKeys.PredictivePowerRankingModel)),
   KenPom_Rank |-> row.AdjEM_Rank, AdjEM |-> row.AdjEM,
   AdjOE |-> row.AdjOE, AdjDE |-> row.AdjDE,
   adjusted_efficiency_score |-> component_scores.adjusted_efficiency,
   recent_performance_score |-> component_scores.recent_performance,
   consistency_score |-> component_scores.consistency,
   pace_flexibility_score |-> component_scores.pace_flexibility,
   experience_score |-> component_scores.experience,
   altitude_travel_score |-> component_scores.altitude_travel,
   injury_adjustment_score |-> component_scores.injury_adjustment]

\* the Predictive_Rank and Rank_Diff columns added to the sorted frame
PredictiveRanked(sorted) ==
  Rows([i \in 1..Len(sorted) |->
          Merge(sorted[i],
                [Predictive_Rank |-> AssignRank(sorted, i),
                 Rank_Diff |-> sorted[i].KenPom_Rank - AssignRank(sorted, i)])])

\* PredictivePowerRankingModel.generate_rankings
predictive_generate_rankings(self, w) ==
  PredictiveRanked(
    sort_float_values(
      Rows([i \in 1..Len(self.rankings) |->
              PredictiveResult(w, self.rankings[i],
                               PredictiveScores(self, self.rankings[i]))]),
      "Predictive_Score"))

\* DefenseFocusedPredictiveModel.calculate_defensive_rating
DefenseDefensiveRating(rankings, team_row) ==
  IF team_row["AdjDE.Rank"] <= 10
  THEN FMin(FromInt(100), FAdd(def_percentile(rankings, team_row), FromInt(5)))
  ELSE def_percentile(rankings, team_row)

\* DefenseFocusedPredictiveModel.calculate_offensive_rating
DefenseOffensiveRating(rankings, team_row) ==
  IF team_row["AdjOE.Rank"] <= 10
  THEN FMin(FromInt(100), FAdd(off_percentile(rankings, team_row), FromInt(3)))
  ELSE off_percentile(rankings, team_row)

\* DefenseFocusedPredictiveModel.calculate_recent_performance
DefenseRecentPerformance(rankings, team_name) ==
  LET rank == FirstRow(rankings, team_name).AdjEM_Rank
  IN  IF rank <= 10 THEN 95
      ELSE IF rank <= 25 THEN 85
      ELSE IF rank <= 50 THEN 75
      ELSE IF rank <= 75 THEN 65
      ELSE IF rank <= 100 THEN 55
      ELSE 45

\* DefenseFocusedPredictiveModel.calculate_consistency
DefenseConsistency(rankings, team_name) ==
  LET team_row == FirstRow(rankings, team_name)
      rank_diff == Abs(team_row["AdjOE.Rank"] - team_row["AdjDE.Rank"])
  IN  IF rank_diff <= 10 THEN 95
      ELSE IF rank_diff <= 25 THEN 85
      ELSE IF rank_diff <= 50 THEN 70
      ELSE IF rank_diff <= 100 THEN 55
      ELSE 40

ElitePrograms ==
  {"Duke", "Kansas", "Kentucky", "North Carolina", "UCLA", "Michigan St.", "Gonzaga",
   "Villanova", "Louisville"}

\* DefenseFocusedPredictiveModel.calculate_experience
DefenseExperience(rankings, team_name) ==
  LET team_row == FirstRow(rankings, team_name)
      base_score == IF team_name \in ElitePrograms THEN 90
                    ELSE IF team_row.Conference \in PowerConferences THEN 75
                    ELSE 60
  IN  IF team_row.AdjEM_Rank <= 25 THEN Min(100, base_score + 10) ELSE base_score

\* DefenseFocusedPredictiveModel.calculate_pace_control
DefensePaceControl(self, team_name) ==
  LET team_tempo == SelectSeq(self.tempo_stats, LAMBDA r : r.Team = team_name)
      adj_tempo_rank == team_tempo[1]["Tempo-Adj.Rank"]
      pace_score == IF adj_tempo_rank <= 50 \/ adj_tempo_rank >= 300 THEN 80
                    ELSE IF adj_tempo_rank <= 100 \/ adj_tempo_rank >= 250 THEN 70
                    ELSE 60
  IN  IF Len(team_tempo) = 0 THEN 50
      ELSE IF FirstRow(self.rankings, team_name)["AdjDE.Rank"] <= 25
      THEN Min(100, pace_score + 10)
      ELSE pace_score

DefenseFactors ==
  <<"defensive_rating", "offensive_rating", "recent_performance", "consistency",
    "experience", "pace_control">>

\* the scores dict of DefenseFocusedPredictiveModel.calculate_total_score
DefenseScores(self, team_row) ==
  [defensive_rating |-> DefenseDefensiveRating(self.rankings, team_row),
   offensive_rating |-> DefenseOffensiveRating(self.rankings, team_row),
   recent_performance |-> FromInt(DefenseRecentPerformance(self.rankings, team_row.Team)),
   consistency |-> FromInt(DefenseConsistency(self.rankings, team_row.Team)),
   experience |-> FromInt(DefenseExperience(self.rankings, team_row.Team)),
   pace_control |-> FromInt(DefensePaceControl(self, team_row.Team))]

\* the result dict of DefenseFocusedPredictiveModel.generate_rankings
DefenseResult(w, row, component_scores) ==
  [Team |-> row.Team, Conference |-> row.Conference,
   Defense_Focused_Score |-> SumProducts(component_scores, w, DefenseFactors,
                                         Len(DefenseFactors)),
   KenPom_Rank |-> row.AdjEM_Rank,
   AdjOE_Rank |-> row["AdjOE.Rank"], AdjDE_Rank |-> row["AdjDE.Rank"],
   AdjEM |-> row.AdjEM,
   defensive_rating_score |-> component_scores.defensive_rating,
   offensive_rating_score |-> component_scores.offensive_rating,
   recent_performance_score |-> component_scores.recent_performance,
   consistency_score |-> component_scores.consistency,
   experience_score |-> component_scores.experience,
   pace_control_score |-> component_scores.pace_control]

\* the Defense_Rank and Rank_Diff columns added to the sorted frame
DefenseRanked(sorted) ==
  Rows([i \in 1..Len(sorted) |->
          Merge(sorted[i],
                [Defense_Rank |-> AssignRank(sorted, i),
                 Rank_Diff |-> sorted[i].KenPom_Rank - AssignRank(sorted, i)])])

\* DefenseFocusedPredictiveModel.generate_rankings
defense_generate_rankings(self, w) ==
  DefenseRanked(
    sort_float_values(
      Rows([i \in 1..Len(self.rankings) |->
              DefenseResult(w, self.rankings[i], DefenseScores(self, self.rankings[i]))]),
      "Defense_Focused_Score"))

\* generate_rankings of the predictive and of the defense-focused model
\* raises KeyError: a row of the tempo table without the column
\* Tempo-Adj.Rank is read for a team of the rankings
TablesGenerateRaises(self) ==
  \E i \in 1..Len(self.rankings), j \in 1..Len(self.tempo_stats) :
    /\ self.tempo_stats[j].Team = self.rankings[i].Team
    /\ "Tempo-Adj.Rank" \notin DOMAIN self.tempo_stats[j]

\* FinalPredictiveModelV2.calculate_defensive_rating
FinalV2DefensiveRating(d, team_row) ==
  IF team_row["AdjDE.Rank"] <= 10
  THEN FMin(FromInt(100), FAdd(def_percentile(d, team_row), FromInt(5)))
  ELSE IF team_row["AdjDE.Rank"] <= 25
  THEN FMin(FromInt(100), FAdd(def_percentile(d, team_row), FromInt(2)))
  ELSE def_percentile(d, team_row)

\* FinalPredictiveModelV2.calculate_offensive_rating
FinalV2OffensiveRating(d, team_row) ==
  IF team_row["AdjOE.Rank"] <= 10
  THEN FMin(FromInt(100), FAdd(off_percentile(d, team_row), FromInt(4)))
  ELSE IF team_row["AdjOE.Rank"] <= 25
  THEN FMin(FromInt(100), FAdd(off_percentile(d, team_row), FromInt(2)))
  ELSE off_percentile(d, team_row)

\* FinalPredictiveModelV2.calculate_recent_performance
FinalV2RecentPerformance(d, team_name) ==
  LET rank == FirstRow(d, team_name).AdjEM_Rank
  IN  IF rank <= 5 THEN 98
      ELSE IF rank <= 10 THEN 93
      ELSE IF rank <= 25 THEN 85
      ELSE IF rank <= 50 THEN 75
      ELSE IF rank <= 75 THEN 65
      ELSE IF rank <= 100 THEN 55
      ELSE IF rank <= 150 THEN 45
      ELSE 35

\* FinalPredictiveModelV2.calculate_experience: a step table of the years
\* of experience (in tenths), by the KenPom rank of the team
FinalV2Experience(team_row) ==
  LET exp_value == team_row.Experience
      team_rank == team_row.AdjEM_Rank
  IN  IF team_rank <= 10
      THEN IF exp_value >= 25 THEN 100 ELSE IF exp_value >= 20 THEN 90 ELSE 80
      ELSE IF team_rank <= 25
      THEN IF exp_value >= 25 THEN 95 ELSE IF exp_value >= 20 THEN 80 ELSE 70
      ELSE IF team_rank <= 50
      THEN IF exp_value >= 25 THEN 90
           ELSE IF exp_value >= 20 THEN 70
           ELSE IF exp_value >= 15 THEN 55
           ELSE 40
      ELSE IF team_rank <= 100
      THEN IF exp_value >= 30 THEN 90
           ELSE IF exp_value >= 25 THEN 75
           ELSE IF exp_value >= 20 THEN 60
           ELSE IF exp_value >= 15 THEN 45
           ELSE 30
      ELSE IF exp_value >= 30 THEN 85
           ELSE IF exp_value >= 25 THEN 70
           ELSE IF exp_value >= 20 THEN 50
           ELSE IF exp_value >= 15 THEN 30
           ELSE 10

\* FinalPredictiveModelV2.calculate_pace_control: 50 for a row without the
\* column Tempo-Adj.Rank
FinalV2PaceControl(team_row) ==
  LET rank == team_row["Tempo-Adj.Rank"]
      pace_score == IF rank <= 30 \/ rank >= 335 THEN 90
                    ELSE IF rank <= 60 \/ rank >= 305 THEN 75
                    ELSE IF rank <= 100 \/ rank >= 265 THEN 60
                    ELSE 45
  IN  IF "Tempo-Adj.Rank" \notin DOMAIN team_row THEN 50
      ELSE IF team_row.AdjEM_Rank <= 25 THEN Min(100, pace_score + 10)
      ELSE pace_score

\* the keys of the scores dict of calculate_total_score of both classes
MergedFactors ==
  <<"defensive_rating", "offensive_rating", "recent_performance", "experience",
    "pace_control">>

\* the scores dict of FinalPredictiveModelV2.calculate_total_score
FinalV2Scores(self, team_row) ==
  [defensive_rating |-> FinalV2DefensiveRating(self.data, team_row),
   offensive_rating |-> FinalV2OffensiveRating(self.data, team_row),
   recent_performance |-> FromInt(FinalV2RecentPerformance(self.data, team_row.Team)),
   experience |-> FromInt(FinalV2Experience(team_row)),
   pace_control |-> FromInt(FinalV2PaceControl(team_row))]

\* the result dict of FinalPredictiveModelV2.generate_rankings
FinalV2Result(w, row, component_scores) ==
  [Team |-> row.Team, Conference |-> row.Conference,
   Final_Score |-> SumProducts(component_scores, w, MergedFactors, Len(MergedFactors)),
   Experience |-> row.Experience,
   Experience_Score |-> component_scores.experience,
   KenPom_Rank |-> row.AdjEM_Rank,
   AdjEM |-> row.AdjEM, AdjOE |-> row.AdjOE, AdjDE |-> row.AdjDE,
   AdjOE_Rank |-> row["AdjOE.Rank"], AdjDE_Rank |-> row["AdjDE.Rank"],
   defensive_rating_score |-> component_scores.defensive_rating,
   offensive_rating_score |-> component_scores.offensive_rating,
   recent_performance_score |-> component_scores.recent_performance,
   experience_score |-> component_scores.experience,
   pace_control_score |-> component_scores.pace_control]

\* FinalPredictiveModelV2.generate_rankings
final_v2_generate_rankings(self, w) ==
  FinalRanked(
    sort_float_values(
      Rows([i \in 1..Len(self.data) |->
              FinalV2Result(w, self.data[i], FinalV2Scores(self, self.data[i]))]),
      "Final_Score"))

\* calculate_defensive_rating of the clean model
CleanDefensiveRating(d, team_row) ==
  IF team_row["AdjDE.Rank"] <= 10
  THEN FMin(FromInt(100), FAdd(def_percentile(d, team_row), FromInt(5)))
  ELSE IF team_row["AdjDE.Rank"] <= 25
  THEN FMin(FromInt(100), FAdd(def_percentile(d, team_row), FromInt(2)))
  ELSE def_percentile(d, team_row)

\* calculate_offensive_rating of the clean model
CleanOffensiveRating(d, team_row) ==
  IF team_row["AdjOE.Rank"] <= 10
  THEN FMin(FromInt(100), FAdd(off_percentile(d, team_row), FromInt(4)))
  ELSE IF team_row["AdjOE.Rank"] <= 25
  THEN FMin(FromInt(100), FAdd(off_percentile(d, team_row), FromInt(2)))
  ELSE off_percentile(d, team_row)

\* calculate_recent_performance of the clean model
CleanRecentPerformance(d, team_name) ==
  LET rank == FirstRow(d, team_name).AdjEM_Rank
  IN  IF rank <= 5 THEN 98
      ELSE IF rank <= 10 THEN 93
      ELSE IF rank <= 25 THEN 85
      ELSE IF rank <= 50 THEN 75
      ELSE IF rank <= 75 THEN 65
      ELSE IF rank <= 100 THEN 55
      ELSE IF rank <= 150 THEN 45
      ELSE 35

\* calculate_experience of the clean model: the percentile of the years of
\* experience, with a bonus for veterans and a penalty for young rosters
CleanCalculateExperience(d, team_row) ==
  LET exp_value == team_row.Experience
      p0 == exp_percentile(d, team_row)
      p1 == IF exp_value >= 30 THEN FMin(FromInt(100), FAdd(p0, FromInt(10)))
            ELSE IF exp_value >= 25 THEN FMin(FromInt(100), FAdd(p0, FromInt(5)))
            ELSE p0
  IN  IF exp_value < 15 THEN FMax(FromInt(0), FSub(p1, FromInt(10)))
      ELSE IF exp_value < 20 THEN FMax(FromInt(0), FSub(p1, FromInt(5)))
      ELSE p1

\* calculate_pace_control of the clean model
CleanPaceControl(team_row) ==
  LET rank == team_row["Tempo-Adj.Rank"]
      pace_score == IF rank <= 30 \/ rank >= 335 THEN 90
                    ELSE IF rank <= 60 \/ rank >= 305 THEN 75
                    ELSE IF rank <= 100 \/ rank >= 265 THEN 60
                    ELSE 45
  IN  IF "Tempo-Adj.Rank" \notin DOMAIN team_row THEN 50
      ELSE IF team_row.AdjEM_Rank <= 25 THEN Min(100, pace_score + 10)
      ELSE pace_score

\* the scores dict of calculate_total_score of the clean model
CleanScores(self, team_row) ==
  [defensive_rating |-> CleanDefensiveRating(self.data, team_row),
   offensive_rating |-> CleanOffensiveRating(self.data, team_row),
   recent_performance |-> FromInt(CleanRecentPerformance(self.data, team_row.Team)),
   experience |-> CleanCalculateExperience(self.data, team_row),
   pace_control |-> FromInt(CleanPaceControl(team_row))]

\* the result dict of generate_rankings of the clean model
CleanResult(w, row, component_scores) ==
  [Team |-> row.Team, Conference |-> row.Conference,
   Final_Score |-> SumProducts(component_scores, w, MergedFactors, Len(MergedFactors)),
   Experience |-> row.Experience,
   KenPom_Rank |-> row.AdjEM_Rank,
   AdjEM |-> row.AdjEM, AdjOE |-> row.AdjOE, AdjDE |-> row.AdjDE,
   AdjOE_Rank |-> row["AdjOE.Rank"], AdjDE_Rank |-> row["AdjDE.Rank"],
   defensive_rating_score |-> component_scores.defensive_rating,
   offensive_rating_score |-> component_scores.offensive_rating,
   recent_performance_score |-> component_scores.recent_performance,
   experience_score |-> component_scores.experience,
   pace_control_score |-> component_scores.pace_control]

\* generate_rankings of the clean model
clean_generate_rankings(self, w) ==
  FinalRanked(
    sort_float_values(
      Rows([i \in 1..Len(self.data) |->
              CleanResult(w, self.data[i], CleanScores(self, self.data[i]))]),
      "Final_Score"))

\* generate_rankings of FinalPredictiveModelV2 and of the clean model
\* raises KeyError: without a row the results frame has no Final_Score
\* column to sort by
MergedGenerateRaises(self) == Len(self.data) = 0

\* the names of the teams of these tables: a tough venue, an altitude team
\* and others
RankerTeam(i) == IF i = 1 THEN "Duke" ELSE IF i = 2 THEN "Nevada" ELSE TeamName(i)

\* the profile of the i-th team; in a level table every team has the
\* efficiencies of the first
RankerStyle(i, level) ==
  IF level THEN [ExpStyles[((i - 1) % Len(ExpStyles)) + 1] EXCEPT
                   !.AdjOE = ExpStyles[1].AdjOE, !.AdjDE = ExpStyles[1].AdjDE]
  ELSE ExpStyles[((i - 1) % Len(ExpStyles)) + 1]

\* kenpom_rankings_latest.csv
RankerRankings(n, level) ==
  [i \in 1..n |->
     LET s == RankerStyle(i, level)
     IN  With(With([Team |-> RankerTeam(i), Conference |-> ConferenceOf(i),
                    AdjEM_Rank |-> s.AdjEM_Rank, AdjEM |-> s.AdjOE - s.AdjDE,
                    AdjOE |-> s.AdjOE, AdjDE |-> s.AdjDE],
                   "AdjOE.Rank", s.oer), "AdjDE.Rank", s.der)]

\* kenpom_four_factors_latest.csv
RankerFourFactors(n, level) ==
  [i \in 1..n |->
     LET s == RankerStyle(i, level)
     IN  With(With([Team |-> RankerTeam(i), Conference |-> ConferenceOf(i),
                    AdjOE |-> s.AdjOE, AdjDE |-> s.AdjDE],
                   "AdjOE.Rank", s.oer), "AdjDE.Rank", s.der)]

\* kenpom_height_experience_latest.csv
RankerPersonnel(n, exps) ==
  [i \in 1..n |->
     [Team |-> RankerTeam(i), Conference |-> ConferenceOf(i), Experience |-> exps[i]]]

\* kenpom_tempo_stats_latest.csv, with or without its rank column
RankerTempo(n, ranked) ==
  [i \in 1..n |->
     IF ranked
     THEN With([Team |-> RankerTeam(i), Conference |-> ConferenceOf(i)],
               "Tempo-Adj.Rank", RankerStyle(i, FALSE).tempo)
     ELSE [Team |-> RankerTeam(i), Conference |-> ConferenceOf(i)]]

\* what the CSVs of a run may be: all there; a table without its last
\* team; the tempo table without its rank column; the tempo file not there
RankerShapes ==
  {"complete", "short_four_factors", "short_tempo", "short_personnel", "no_tempo_rank",
   "no_tempo"}

WithoutLast(rows) == SubSeq(rows, 1, Len(rows) - 1)

RankerFiles(n, exps, level, shape) ==
  [rankings |-> [exists |-> TRUE, rows |-> RankerRankings(n, level)],
   four_factors |->
     [exists |-> TRUE,
      rows |-> IF shape = "short_four_factors" THEN WithoutLast(RankerFourFactors(n, level))
               ELSE RankerFourFactors(n, level)],
   personnel |->
     [exists |-> TRUE,
      rows |-> IF shape = "short_personnel" THEN WithoutLast(RankerPersonnel(n, exps))
               ELSE RankerPersonnel(n, exps)],
   tempo |->
     [exists |-> shape # "no_tempo",
      rows |-> IF shape = "short_tempo" THEN WithoutLast(RankerTempo(n, TRUE))
               ELSE RankerTempo(n, shape # "no_tempo_rank")]]

\* the experience of the rosters: the classes that read no personnel table
\* are run with one such table
RankerExperience(c, n) ==
  IF c \in MergingClasses /\ n <= SmallTable THEN [1..n -> WideExpValues]
  ELSE {[i \in 1..n |-> 20]}

InitRankers ==
  /\ prog = "rankers"
  /\ pc = "constructed"
  /\ cls \in RankerClasses
  /\ arg = NoArg
  /\ env = NoArg
  /\ out = NoArg
  /\ \E n \in 1..MaxTeams :
      \E exps \in RankerExperience(cls, n) :
       \E level \in {l \in BOOLEAN : l => n <= SmallTable},
          shape \in {s \in RankerShapes : s # "complete" => n <= SmallTable} :
         /\ level => shape = "complete"
         /\ files = RankerFiles(n, exps, level, shape)
  /\ data = <<>>
  /\ results_df = <<>>
  /\ player_data = <<>>
  /\ weights = InitWeights(cls, NoArg)
  /\ runs = 0

\* PredictivePowerRankingModel: model.load_data()
PredictiveLoadData ==
  /\ prog = "rankers"
  /\ cls = "PredictivePowerRankingModel"
  /\ pc = "constructed"
  /\ ~TablesLoadRaises(files)
  /\ data' = predictive_load_data(files)
  /\ pc' = "loaded"
  /\ UNCHANGED <<prog, cls, arg, env, out, files, results_df, player_data, weights, runs>>

\* DefenseFocusedPredictiveModel: model.load_data()
DefenseLoadData ==
  /\ prog = "rankers"
  /\ cls = "DefenseFocusedPredictiveModel"
  /\ pc = "constructed"
  /\ ~TablesLoadRaises(files)
  /\ data' = defense_load_data(files)
  /\ pc' = "loaded"
  /\ UNCHANGED <<prog, cls, arg, env, out, files, results_df, player_data, weights, runs>>

\* FinalPredictiveModelV2: model.load_all_data()
FinalV2LoadAllData ==
  /\ prog = "rankers"
  /\ cls = "FinalPredictiveModelV2"
  /\ pc = "constructed"
  /\ ~MergedLoadRaises(files)
  /\ data' = final_v2_load_all_data(files)
  /\ pc' = "loaded"
  /\ UNCHANGED <<prog, cls, arg, env, out, files, results_df, player_data, weights, runs>>

\* the clean model: model.load_all_data()
CleanLoadAllData ==
  /\ prog = "rankers"
  /\ cls = "FinalPredictiveModelClean"
  /\ pc = "constructed"
  /\ ~MergedLoadRaises(files)
  /\ data' = clean_load_all_data(files)
  /\ pc' = "loaded"
  /\ UNCHANGED <<prog, cls, arg, env, out, files, results_df, player_data, weights, runs>>

\* the load step raises FileNotFoundError and ends the script
RankerLoadFails ==
  /\ prog = "rankers"
  /\ pc = "constructed"
  /\ IF cls \in TableClasses THEN TablesLoadRaises(files) ELSE MergedLoadRaises(files)
  /\ pc' = "crashed"
  /\ UNCHANGED <<prog, cls, arg, env, out, files, data, results_df, player_data, weights, runs>>

\* PredictivePowerRankingModel: model.generate_rankings()
PredictiveGenerateRankings ==
  /\ prog = "rankers"
  /\ cls = "PredictivePowerRankingModel"
  /\ pc = "loaded"
  /\ ~TablesGenerateRaises(data)
  /\ results_df' = predictive_generate_rankings(data, weights)
  /\ pc' = "ranked"
  /\ UNCHANGED <<prog, cls, arg, env, out, files, data, player_data, weights, runs>>

\* DefenseFocusedPredictiveModel: model.generate_rankings()
DefenseGenerateRankings ==
  /\ prog = "rankers"
  /\ cls = "DefenseFocusedPredictiveModel"
  /\ pc = "loaded"
  /\ ~TablesGenerateRaises(data)
  /\ results_df' = defense_generate_rankings(data, weights)
  /\ pc' = "ranked"
  /\ UNCHANGED <<prog, cls, arg, env, out, files, data, player_data, weights, runs>>

\* FinalPredictiveModelV2: model.generate_rankings()
FinalV2GenerateRankings ==
  /\ prog = "rankers"
  /\ cls = "FinalPredictiveModelV2"
  /\ pc = "loaded"
  /\ ~MergedGenerateRaises(data)
  /\ results_df' = final_v2_generate_rankings(data, weights)
  /\ pc' = "ranked"
  /\ UNCHANGED <<prog, cls, arg, env, out, files, data, player_data, weights, runs>>

\* the clean model: model.generate_rankings()
CleanGenerateRankings ==
  /\ prog = "rankers"
  /\ cls = "FinalPredictiveModelClean"
  /\ pc = "loaded"
  /\ ~MergedGenerateRaises(data)
  /\ results_df' = clean_generate_rankings(data, weights)
  /\ pc' = "ranked"
  /\ UNCHANGED <<prog, cls, arg, env, out, files, data, player_data, weights, runs>>

\* generate_rankings raises KeyError and ends the script; the predictive
\* and the defense-focused model have no self.results_df then, the other
\* two the empty frame
RankerGenerateFails ==
  /\ prog = "rankers"
  /\ pc = "loaded"
  /\ IF cls \in TableClasses THEN TablesGenerateRaises(data) ELSE MergedGenerateRaises(data)
  /\ results_df' = <<>>
  /\ pc' = "crashed"
  /\ UNCHANGED <<prog, cls, arg, env, out, files, data, player_data, weights, runs>>

NextRankers ==
  \/ PredictiveLoadData
  \/ DefenseLoadData
  \/ FinalV2LoadAllData
  \/ CleanLoadAllData
  \/ RankerLoadFails
  \/ PredictiveGenerateRankings
  \/ DefenseGenerateRankings
  \/ FinalV2GenerateRankings
  \/ CleanGenerateRankings
  \/ RankerGenerateFails

SpecRankers == InitRankers /\ [][NextRankers]_vars

Init == InitV3 \/ InitSwish \/ InitWeightsSpec \/ InitExperience \/ InitHybrid \/ InitScrape \/ InitEra \/ InitDeploy \/ InitPredict
          \/ InitWeighted \/ InitRankers

Next ==
  \/ NextV3
  \/ NextSwish
  \/ NextWeights
  \/ NextExperience
  \/ NextHybrid
  \/ NextScrape
  \/ NextEra
  \/ NextDeploy
  \/ NextPredict
  \/ NextWeighted
  \/ NextRankers

Spec == Init /\ [][Next]_vars

(***************************************************************************)
(* Properties                                                              *)
(***************************************************************************)

\* the ranked table a program holds: the frame generate_rankings of an NCAA
\* model returns, self.player_data of a SWISH calculator after
\* calculate_swish_score
OutTable ==
  IF prog \in {"v3", "hybrid", "experience", "weighted", "rankers"} THEN results_df
  ELSE IF prog \in {"swish1", "swish2"} /\ pc = "ranked" THEN player_data
  ELSE <<>>

\* the final score of a row of the ranked table
ScoreOf(row) ==
  IF prog = "hybrid" THEN row.Hybrid_Score
  ELSE IF prog = "weighted" THEN row.Weighted_Score
  ELSE IF cls = "PredictivePowerRankingModel" THEN row.Predictive_Score
  ELSE IF cls = "DefenseFocusedPredictiveModel" THEN row.Defense_Focused_Score
  ELSE IF cls = "ExperienceEnhancedModel" THEN row.Experience_Score
  ELSE IF prog \in {"swish1", "swish2"} THEN row.SWISH_Score
  ELSE row.Final_Score

\* score a is less than score b.  The scores of the V3 model are integers,
\* all the others are floats, where no comparison with NaN is true
Below(a, b) == IF prog = "v3" THEN a < b ELSE FLess(a, b)

\* score a is greater than or equal to score b
AtLeast(a, b) == IF prog = "v3" THEN a >= b ELSE FGreaterEq(a, b)

\* the rank of a row of the ranked table
RankOf(row) ==
  IF prog = "hybrid" THEN row.Hybrid_Rank
  ELSE IF prog = "weighted" THEN row.Weighted_Rank
  ELSE IF cls = "PredictivePowerRankingModel" THEN row.Predictive_Rank
  ELSE IF cls = "DefenseFocusedPredictiveModel" THEN row.Defense_Rank
  ELSE IF cls = "ExperienceEnhancedModel" THEN row.New_Rank
  ELSE IF prog \in {"swish1", "swish2"} THEN row.GOAT_Rank
  ELSE row.Final_Rank

\* position of a team in the input table
RowOf(team_name) ==
  CHOOSE j \in 1..Len(files.rankings.rows) : files.rankings.rows[j].Team = team_name

\* C1 as stated: monotonic ranking.  In the ranked table of every NCAA
\* model and of both SWISH calculators, a row with a smaller rank number
\* has a final score greater than or equal to that of every row with a
\* larger rank number.
C1_MonotonicRanking ==
  \A i, j \in 1..Len(OutTable) :
    RankOf(OutTable[i]) < RankOf(OutTable[j])
      => AtLeast(ScoreOf(OutTable[i]), ScoreOf(OutTable[j]))

\* C2 as stated: the rank is a dense rank.  Rows with equal final scores
\* have the same rank, and the rank of a row is one more than the number of
\* distinct scores above its own.
C2_DenseRank ==
  \A i \in 1..Len(OutTable) :
    RankOf(OutTable[i]) =
      1 + Cardinality({ScoreOf(OutTable[j]) : j \in
                         {k \in 1..Len(OutTable) :
                            Below(ScoreOf(OutTable[i]), ScoreOf(OutTable[k]))}})

\* C2 amended: the rank is an ordinal rank.  The ranks of a table of N rows
\* are exactly 1..N, each used once, and the rank of a row lies above the
\* number of rows with a strictly higher score and not above the number of
\* rows with a score at least its own; rows with equal scores therefore get
\* distinct consecutive ranks.
C2_OrdinalRank ==
  /\ {RankOf(OutTable[i]) : i \in 1..Len(OutTable)} = 1..Len(OutTable)
  /\ \A i \in 1..Len(OutTable) :
       LET above == Cardinality({j \in 1..Len(OutTable) :
                                   Below(ScoreOf(OutTable[i]), ScoreOf(OutTable[j]))})
           atleast == Cardinality({j \in 1..Len(OutTable) :
                                     ~Below(ScoreOf(OutTable[j]), ScoreOf(OutTable[i]))})
       IN  above < RankOf(OutTable[i]) /\ RankOf(OutTable[i]) <= atleast

\* a SWISH ranking in which two players have the same SWISH_Score and
\* different GOAT_Rank
C2_Witness ==
  /\ prog \in {"swish1", "swish2"}
  /\ pc = "ranked"
  /\ \E i, j \in 1..Len(player_data) :
       /\ player_data[i].SWISH_Score = player_data[j].SWISH_Score
       /\ player_data[i].GOAT_Rank < player_data[j].GOAT_Rank

\* C3: the rank delta.  Rank_Change of every result row is the KenPom rank
\* of that team, taken from the AdjEM_Rank column of the loaded data, minus
\* the rank the model assigned to it.
C3_RankDelta ==
  \A i \in 1..Len(results_df) :
    \E j \in 1..Len(data) :
      /\ data[j].Team = results_df[i].Team
      /\ results_df[i].KenPom_Rank = data[j].AdjEM_Rank
      /\ results_df[i].Rank_Change = data[j].AdjEM_Rank - results_df[i].Final_Rank

\* a ranking in which one team moved up and another moved down against
\* KenPom
C3_Witness ==
  /\ prog = "v3"
  /\ pc = "ranked"
  /\ \E i, j \in 1..Len(results_df) :
       results_df[i].Rank_Change > 0 /\ results_df[j].Rank_Change < 0

\* C4: in every V3 result row each of the five sub-scores is within
\* [0, 100] and so is Final_Score.
C4_V3ScoresInRange ==
  \A i \in 1..Len(results_df) :
    /\ \A f \in V3Factors :
         LET col == f \o "_score"
         IN  0 <= results_df[i][col] /\ results_df[i][col] <= Hundred
    /\ 0 <= results_df[i].Final_Score
    /\ results_df[i].Final_Score <= 100 * Hundred

\* a ranking of a large table in which the top-10 defensive bonus was cut
\* off at 100 and the turnover penalty was cut off at 0
C4_Witness ==
  /\ prog = "v3"
  /\ Len(results_df) = PaddedLen
  /\ \E i, j \in 1..Len(results_df) :
       /\ results_df[i].AdjDE_Rank <= 10
       /\ results_df[i].defensive_rating_score = Hundred
       /\ results_df[j].Turnover_Margin < Tenths(0 - 30)
       /\ results_df[j].turnover_margin_score = 0

\* every input statistic of a player row is present and non-negative
NonNegativeStats(row) ==
  \A f \in (DOMAIN Production[1] \cup DOMAIN Honors[1]) \ {"primary_position"} :
    row[f] >= 0

\* the float x is a number of [0, 100]
InRange(x) == FLessEq(FromInt(0), x) /\ FLessEq(x, FromInt(100))

\* C5 as stated: for non-negative input statistics every component score
\* and the SWISH_Score computed by SwishScoreCalculatorV2 is within [0, 100].
C5_V2ScoresInRange ==
  (prog = "swish2" /\ pc = "ranked") =>
    \A i \in 1..Len(player_data) :
      NonNegativeStats(player_data[i]) =>
        /\ \A c \in SwishComponents : InRange(player_data[i][c])
        /\ InRange(player_data[i].SWISH_Score)

\* C6: for non-negative input statistics every component score and the
\* SWISH_Score computed by SwishScoreCalculator (v1) is within [0, 100].
C6_V1ScoresInRange ==
  (prog = "swish1" /\ pc = "ranked") =>
    \A i \in 1..Len(player_data) :
      /\ \A c \in SwishComponents : InRange(player_data[i][c])
      /\ InRange(player_data[i].SWISH_Score)

\* a v1 ranking with a player whose PER, peak scoring and win shares are
\* all beyond the caps, so that peak_dominance_score is exactly 100
C6_Witness ==
  /\ prog = "swish1"
  /\ pc = "ranked"
  /\ \E i \in 1..Len(player_data) :
       /\ player_data[i].career_per > 310
       /\ player_data[i].peak_dominance_score = FromInt(100)

\* C7: the default top-level weights of every model class sum to exactly
\* 1.0, and so does every inner component weight list of the two SWISH
\* calculators.
C7_DefaultWeightsSumToOne ==
  (prog = "ctor" /\ pc = "constructed" /\ arg = NoArg) =>
    /\ Total(weights.num) = weights.den
    /\ \A inner \in InnerWeights(cls) : SumSeq(inner) = 100

\* SwishScoreCalculatorV2 constructed with its default weights
C7_Witness ==
  /\ prog = "ctor"
  /\ pc = "constructed"
  /\ arg = NoArg
  /\ cls = "SwishScoreCalculatorV2"
  /\ weights.num.championship_impact_score = 20

\* one part in 10^9: far above the rounding of a float quotient, far below
\* the 0.001 of the constructors
Billionth == FDiv(FromInt(1), FromInt(1000000000))

\* x and y are the same number up to a billionth
Close(x, y) == FLessEq(FAbs(FSub(x, y)), Billionth)

\* the stored weights are in the proportions of the weights passed:
\* stored[f] * passed[g] = stored[g] * passed[f] up to a billionth
KeepsProportions(stored, passed) ==
  \A f, g \in DOMAIN passed :
    Close(FMul(stored[f], passed[g]), FMul(stored[g], passed[f]))

\* C8: whenever custom weights are passed to one of the three normalizing
\* constructors and it returns, the stored weights sum to 1.0 and keep the
\* proportions of the weights passed.  The sum is the float sum of the
\* stored weights and is compared, like the proportions, up to a billionth,
\* so that the rounding of the float quotients does not count against the
\* statement.
C8_CustomWeightsSumToOne ==
  (prog = "ctor" /\ arg # NoArg /\ DOMAIN arg # {} /\ pc = "constructed") =>
    /\ Close(WeightTotal(cls, weights.stored), FromInt(1))
    /\ KeepsProportions(weights.stored, FloatWeights(PassedWeights(cls, arg)))

\* C9 as stated: ranking is idempotent.  A generate_rankings or
\* calculate_swish_score call made when a ranking is already there, on
\* unchanged input, leaves the ranked table exactly as it was, ties
\* included.
C9_Idempotent ==
  [][/\ (prog = "v3" /\ results_df # <<>> /\ pc' = "ranked")
          => results_df' = results_df
     /\ (prog \in {"swish1", "swish2"} /\ pc = "ranked" /\ pc' = "ranked")
          => player_data' = player_data]_vars

\* C10 as stated: the percentile rank of a team is the fraction of the
\* other teams that are strictly worse, times 100.  Read off the defensive
\* score of the rows that get no rank bonus: the strictly best of N teams
\* gets 100, a team with no strictly worse team gets 0.
C10_PercentileOfOthers ==
  \A i \in 1..Len(results_df) :
    results_df[i].AdjDE_Rank > 25 =>
      LET n == Len(results_df)
          worse == Cardinality({j \in 1..n :
                                  results_df[j].AdjDE > results_df[i].AdjDE})
      IN  IF worse = 0 THEN results_df[i].defensive_rating_score = 0
          ELSE results_df[i].defensive_rating_score * (n - 1) = worse * Hundred

\* C10 amended: the percentile rank of a team is the fraction of all teams
\* of the table, the team itself included, that are strictly worse, times
\* 100.  The strictly best of N teams gets 100 * (N - 1) / N, a team with no
\* strictly worse team gets 0.
C10_PercentileOfAll ==
  \A i \in 1..Len(results_df) :
    results_df[i].AdjDE_Rank > 25 =>
      LET n == Len(results_df)
          worse == Cardinality({j \in 1..n :
                                  results_df[j].AdjDE > results_df[i].AdjDE})
      IN  results_df[i].defensive_rating_score * n = worse * Hundred

\* a ranking in which a team without rank bonus has the strictly best
\* defense of at least two teams and a defensive score below 100
C10_Witness ==
  /\ prog = "v3"
  /\ Len(results_df) >= 2
  /\ \E i \in 1..Len(results_df) :
       /\ results_df[i].AdjDE_Rank > 25
       /\ \A j \in 1..Len(results_df) :
            j # i => results_df[j].AdjDE > results_df[i].AdjDE
       /\ results_df[i].defensive_rating_score * Len(results_df)
            = (Len(results_df) - 1) * Hundred
       /\ results_df[i].defensive_rating_score < Hundred

\* clamp(x, 0, 100) in units of 1/Scale point
ClampHundred(x) == Min(Hundred, Max(0, x))

\* the bonus and the penalty of a sub-score, as step functions of the raw
\* metric (units of 1/Scale point)
TurnoverBonus(margin) ==
  IF margin > Tenths(50) THEN 10 * Scale ELSE IF margin > Tenths(30) THEN 5 * Scale ELSE 0

TurnoverPenalty(margin) == IF margin < Tenths(0 - 30) THEN 10 * Scale ELSE 0

RatingBonus(rank, top10, top25) ==
  IF rank <= 10 THEN top10 * Scale ELSE IF rank <= 25 THEN top25 * Scale ELSE 0

\* the bonus and the penalty of the experience scores, in points
ExperienceBonus(c, exp_value) ==
  IF c = "FinalPredictiveModel"
  THEN (IF exp_value >= 30 THEN 10 ELSE IF exp_value >= 25 THEN 5 ELSE 0)
  ELSE (IF exp_value > 25 THEN 10 ELSE IF exp_value > 20 THEN 5 ELSE 0)

ExperiencePenalty(c, exp_value) ==
  IF c = "FinalPredictiveModel"
  THEN (IF exp_value < 15 THEN 10 ELSE IF exp_value < 20 THEN 5 ELSE 0)
  ELSE (IF exp_value < 15 THEN 10 ELSE 0)

\* the years of experience in a result row of either model
YearsOf(row) ==
  IF cls = "FinalPredictiveModel" THEN row.Experience ELSE row.Experience_Years

\* the share of the rows of the result table with fewer years than row i,
\* in percent, as a float
YearsPercentile(i) ==
  FMul(FromRatio(Cardinality({j \in 1..Len(results_df) :
                                YearsOf(results_df[i]) > YearsOf(results_df[j])}),
                 Len(results_df)),
       FromInt(100))

\* clamp(x, 0, 100) of a float
ClampFloat(x) == FMax(FromInt(0), FMin(FromInt(100), x))

\* the percentile of a result row within its own table
PercentileIn(tbl, col, i, higher_is_better) ==
  (Cardinality({j \in 1..Len(tbl) :
                  IF higher_is_better THEN tbl[i][col] > tbl[j][col]
                  ELSE tbl[j][col] > tbl[i][col]}) * 100 * Scale) \div Len(tbl)

\* C11: every percentile-based sub-score the code computes step by step
\* (add the bonus, min with 100, subtract the penalty, max with 0) equals
\* clamp(percentile + bonus - penalty, 0, 100): the V3 turnover, defensive
\* and offensive scores and the experience scores of FinalPredictiveModel
\* and ExperienceEnhancedModel.
C11_StepwiseEqualsClamp ==
  /\ prog = "v3" =>
       \A i \in 1..Len(results_df) :
         LET r == results_df[i]
         IN  /\ r.turnover_margin_score =
                  ClampHundred(PercentileIn(results_df, "Turnover_Margin", i, TRUE)
                               + TurnoverBonus(r.Turnover_Margin)
                               - TurnoverPenalty(r.Turnover_Margin))
             /\ r.defensive_rating_score =
                  ClampHundred(PercentileIn(results_df, "AdjDE", i, FALSE)
                               + RatingBonus(r.AdjDE_Rank, 5, 2))
             /\ r.offensive_rating_score =
                  ClampHundred(PercentileIn(results_df, "AdjOE", i, TRUE)
                               + RatingBonus(r.AdjOE_Rank, 4, 2))
  /\ prog = "experience" =>
       \A i \in 1..Len(results_df) :
         results_df[i].experience_score =
           ClampFloat(FSub(FAdd(YearsPercentile(i),
                                FromInt(ExperienceBonus(cls, YearsOf(results_df[i])))),
                           FromInt(ExperiencePenalty(cls, YearsOf(results_df[i])))))

\* an experience table of 24 rosters in which a veteran roster's bonus was
\* cut off at 100 and a young roster's penalty was cut off at 0
C11_Witness ==
  /\ prog = "experience"
  /\ Len(results_df) = PaddedLen
  /\ \E i, j \in 1..Len(results_df) :
       /\ YearsOf(results_df[i]) > 30
       /\ results_df[i].experience_score = FromInt(100)
       /\ FLess(FromInt(100), FAdd(YearsPercentile(i), FromInt(10)))
       /\ YearsOf(results_df[j]) < 15
       /\ results_df[j].experience_score = FromInt(0)


\* the Team names in the CSV t, and how often a name occurs in a table
TeamsOf(t) == {files[t].rows[i].Team : i \in 1..Len(files[t].rows)}

Occurrences(rows, team_name) ==
  Cardinality({i \in 1..Len(rows) : rows[i].Team = team_name})

\* C12: the teams generate_rankings ranks are exactly the teams named in all
\* three of the rankings, personnel and four-factors tables, and a team that
\* occurs once in each table occurs once in the ranking.
C12_InnerJoinOnTeam ==
  (prog = "v3" /\ pc \in {"ranked", "saved"}) =>
     /\ {results_df[i].Team : i \in 1..Len(results_df)}
          = TeamsOf("rankings") \cap TeamsOf("personnel") \cap TeamsOf("four_factors")
     /\ \A team_name \in TeamsOf("rankings") :
          (\A t \in TableNames : Occurrences(files[t].rows, team_name) = 1)
             => Occurrences(results_df, team_name) = 1

\* a ranking of a scrape in which the join dropped a team and kept another
C12_Witness ==
  /\ prog = "v3"
  /\ pc = "ranked"
  /\ Len(results_df) >= 1
  /\ \E team_name \in TeamsOf("rankings") : Occurrences(results_df, team_name) = 0
  /\ \E team_name \in TeamsOf("rankings") :
        /\ \A t \in TableNames : Occurrences(files[t].rows, team_name) = 1
        /\ Occurrences(results_df, team_name) = 1

\* one of the three CSVs is not there, or none of them has a column the
\* pipeline cannot do without
InputMissing ==
  \/ \E t \in TableNames : ~files[t].exists
  \/ \E t \in TableNames : "Team" \notin files[t].columns
  \/ ~(KeyColumns \subseteq MergedColumns(files))

\* C14: when one of the three CSVs of final_model_v3.py is missing, or one of
\* the columns Team, AdjDE, AdjOE, AdjEM_Rank, Experience, Off-TO%, Def-TO%
\* is absent, the run ends in an uncaught exception -- in load_all_data, or
\* in generate_rankings after a load that went through -- and
\* data/final_predictive_rankings_v3.csv stays as it was.
C14_MissingInputCrashes ==
  [][(prog = "v3" /\ InputMissing) =>
        /\ out' = out
        /\ \/ pc' = "crashed"
           \/ pc = "constructed" /\ pc' = "loaded"]_vars

\* a run that crashed on a missing input next to the CSV of an earlier run
C14_Witness ==
  /\ prog = "v3"
  /\ pc = "crashed"
  /\ InputMissing
  /\ out = [exists |-> TRUE, rows |-> OldRankings]

\* the steps of the hybrid script at which results_df holds the ranking
HybridRankedSteps == {"ranked", "shown", "saved", "done"}

\* one of the two game CSVs of the hybrid model cannot be read
GameDataUnreadable ==
  ~files.upset_games.exists \/ ~files.exciting_games.exists

\* C13: when the upset-games or the exciting-games CSV cannot be read (and
\* the two KenPom tables can), load_data raises nothing and leaves both game
\* tables None, every team gets the neutral results score 50, and
\* generate_rankings ranks each team of the rankings table once.
C13_MissingGameDataIsNeutral ==
  (prog = "hybrid" /\ GameDataUnreadable /\ ~HybridLoadRaises(files)) =>
     /\ pc # "crashed"
     /\ pc \in {"loaded"} \cup HybridRankedSteps =>
          /\ data.upset_games.is_none /\ data.exciting_games.is_none
          /\ \A i \in 1..Len(data.rankings) :
               analyze_game_results(data, data.rankings[i].Team) = FromInt(50)
     /\ pc \in HybridRankedSteps =>
          /\ \A i \in 1..Len(results_df) : results_df[i].Results_Score = FromInt(50)
          /\ \A j \in 1..Len(files.rankings.rows) :
               Occurrences(results_df, files.rankings.rows[j].Team) = 1

\* a ranking made when the upset games were read and the exciting games
\* were not, although a team of the table won an upset
C13_Witness ==
  /\ prog = "hybrid"
  /\ pc = "ranked"
  /\ files.upset_games.exists
  /\ ~files.exciting_games.exists
  /\ \E i \in 1..Len(files.upset_games.rows) :
       Mentions(files.upset_games.rows[i], results_df[1].Team)
  /\ results_df[1].Results_Score = FromInt(50)

\* the data sets whose requests all went through and returned rows
Retrieved ==
  (IF env.four_factors \in {"ok", "convert_fails"} THEN {"four_factors"} ELSE {})
    \cup (IF env.four_factors = "ok" THEN {"rankings"} ELSE {})
    \cup (IF env.tempo_stats = "ok" THEN {"tempo_stats"} ELSE {})
    \cup (IF env.team_stats = "ok" THEN {"team_stats"} ELSE {})
    \cup (IF env.games \in {"ok", "exciting_fails"} THEN {"upset_games"} ELSE {})
    \cup (IF env.games = "ok" THEN {"exciting_games"} ELSE {})

\* the order of the fetch steps in scrape_current_data
StepAfter ==
  [fetch_four_factors |-> "fetch_tempo_stats", fetch_tempo_stats |-> "fetch_team_stats",
   fetch_team_stats |-> "fetch_game_data", fetch_game_data |-> "save"]

FetchSteps == DOMAIN StepAfter

\* C15: in scrape_current_data a fetch step that fails is followed by the
\* next step like one that succeeds and loses nothing collected before it,
\* and the save step writes the timestamped and the _latest file of every
\* data set retrieved; a failed login, and nothing else, stops the run, and
\* then no file is written.
C15_FetchFailuresAreContained ==
  [][prog = "scrape" =>
       /\ pc = "login" =>
            IF env.login = "fails" THEN pc' = "stopped" /\ out' = {}
            ELSE pc' = "fetch_four_factors"
       /\ pc \in FetchSteps =>
            /\ pc' = StepAfter[pc]
            /\ \A n \in DOMAIN data : n \in DOMAIN data' /\ data'[n] = data[n]
       /\ pc = "save" =>
            /\ pc' = "done"
            /\ \A n \in Retrieved : {TimestampedFile(n), LatestFile(n)} \subseteq out'
       /\ pc' = "stopped" => env.login = "fails"]_vars

\* a finished run in which the first three fetch steps failed and the
\* games fetched after them were saved
C15_Witness ==
  /\ prog = "scrape"
  /\ pc = "done"
  /\ env.four_factors = "fetch_fails"
  /\ env.tempo_stats = "fails"
  /\ env.team_stats = "fails"
  /\ out = {TimestampedFile("upset_games"), LatestFile("upset_games"),
            TimestampedFile("exciting_games"), LatestFile("exciting_games")}

\* the era the hard-coded name lists give a name: the lists of full names
\* of v1, the lists of name fragments of v2, 'modern' for a name on no list
NameListEra(name) ==
  IF prog = "era1"
  THEN IF name \in V1PreMergerNames THEN "pre_merger"
       ELSE IF name \in V1EarlyModernNames THEN "early_modern"
       ELSE IF name \in V1GoldenAgeNames THEN "golden_age"
       ELSE IF name \in V1PostJordanNames THEN "post_jordan"
       ELSE "modern"
  ELSE LET hits == {k \in 1..Len(V2EraFragments) :
                      FragmentsOf(name) \cap V2EraFragments[k] # {}}
       IN  IF hits = {} THEN "modern"
           ELSE EraNames[CHOOSE k \in hits : \A j \in hits : k <= j]

\* the start-year data of a row is missing: start_year for v1, career_start
\* or career_end for v2, as an absent column or an empty cell
StartYearMissing(row) ==
  IF prog = "era1" THEN row.start_year \in {NA, NaN}
  ELSE row.career_start \in {NA, NaN} \/ row.career_end \in {NA, NaN}

\* C16 as stated: a player whose start-year data is missing, as an absent
\* column or as an empty cell, gets the era of the hard-coded name lists,
\* and 'modern' only when the name is on none of them.
C16_EraFallbackOnMissingStartYear ==
  (prog \in {"era1", "era2"} /\ pc = "assigned") =>
     \A i \in 1..Len(player_data) :
       StartYearMissing(player_data[i])
         => player_data[i].era = NameListEra(player_data[i].name)

\* the weights of the "What is the SWISH Score?" text of the dashboard, in
\* percent
DashboardWeights ==
  [peak_dominance_score |-> 20, career_value_score |-> 20,
   individual_honors_score |-> 20, championship_impact_score |-> 15,
   statistical_excellence_score |-> 15, longevity_score |-> 10]

\* C17 as stated: the SWISH_Score of every row of nba_goat_rankings_swish.csv,
\* the file the dashboard shows, is the sum of the row's six component
\* scores weighted as the dashboard says: 20, 20, 20, 15, 15, 10 percent.
C17_WebsiteFileHasDashboardWeights ==
  (prog \in {"swish1", "swish2"}) =>
     \A i \in 1..Len(out.nba_goat_rankings_swish) :
       LET row == out.nba_goat_rankings_swish[i]
       IN  row.SWISH_Score = swish_score(row, DashboardWeights)

\* C18 as stated: a run of deploy_updates that prints the summary, which
\* reports "Files staged and committed" and "Pushed to GitHub", has
\* committed and has pushed, to main or to master, before.
C18_SummaryMeansPushed ==
  (prog = "deploy" /\ out.summary) => (out.committed /\ out.pushed)

\* C19: in every ranked table the ranks are a permutation of 1..N -- no
\* rank twice, none skipped -- and the row at position i has rank i.
C19_RanksArePositions ==
  /\ \A i \in 1..Len(OutTable) : RankOf(OutTable[i]) = i
  /\ \A i, j \in 1..Len(OutTable) :
       RankOf(OutTable[i]) = RankOf(OutTable[j]) => i = j
  /\ \A r \in 1..Len(OutTable) : \E i \in 1..Len(OutTable) : RankOf(OutTable[i]) = r

\* a V3 ranking of at least three teams whose first input row ended last
C19_Witness ==
  /\ prog = "v3"
  /\ pc = "ranked"
  /\ Len(results_df) >= 3
  /\ results_df[Len(results_df)].Team = files.rankings.rows[1].Team
  /\ results_df[Len(results_df)].Final_Rank = Len(results_df)

\* results_df['Rank_Change'].sum()
SumRankChange == SumSeq([i \in 1..Len(results_df) |-> results_df[i].Rank_Change])

\* the reference ranks of the ranked teams are a permutation of 1..N
ReferenceRanksArePermutation ==
  /\ {data[i].AdjEM_Rank : i \in 1..Len(data)} = 1..Len(data)
  /\ \A i, j \in 1..Len(data) : data[i].AdjEM_Rank = data[j].AdjEM_Rank => i = j

\* C20: when the KenPom ranks of the ranked teams are a permutation of 1..N
\* the Rank_Change column of generate_rankings' output sums to 0.  (Rankings
\* with tied reference ranks or with a team dropped by the join, where the
\* sum is not 0, are reachable as well.)
C20_RankChangeSumsToZero ==
  (prog = "v3" /\ pc \in {"ranked", "saved"} /\ ReferenceRanksArePermutation)
     => SumRankChange = 0

\* a ranking of teams with the reference ranks 1..N in which the model
\* moved teams, so that single rank changes are not 0 and their sum is
C20_Witness ==
  /\ prog = "v3"
  /\ pc = "ranked"
  /\ Len(results_df) >= 2
  /\ ReferenceRanksArePermutation
  /\ \E i \in 1..Len(results_df) : results_df[i].Rank_Change > 0
  /\ SumRankChange = 0

\* C21: no git push is executed unless the answer to "Push to GitHub?" is y
\* (compared after lower()); the push to master is executed only right after
\* a push to main that failed; and the steps before the prompt reach it
\* whatever git add and git commit return
C21_PushOnlyWhenAskedMasterOnlyAfterMain ==
  [][prog = "deploy" =>
       /\ (\E i \in 1..Len(out'.commands) : out'.commands[i] \in {PushMain, PushMaster})
            => lower(env.push) = "y"
       /\ \A i \in 1..Len(out'.commands) :
            out'.commands[i] = PushMaster
              => i > 1 /\ out'.commands[i - 1] = PushMain /\ ~env.push_main_ok
       /\ (pc = "run_calculator" /\ env.run_calculator # "eof" => pc' = "commit")
       /\ (pc = "commit" => pc' = "push")]_vars

\* staging and commit failed, the prompt was reached and answered y, main
\* was refused and master was tried
C21_Witness ==
  /\ prog = "deploy"
  /\ pc = "done"
  /\ \A k \in DOMAIN FilesToAdd : ~run_command(env.stage_ok[k])
  /\ ~out.committed
  /\ lower(env.push) = "y"
  /\ Len(out.commands) > 1
  /\ out.commands[Len(out.commands)] = PushMaster
  /\ out.commands[Len(out.commands) - 1] = PushMain

\* the team has a row in the rankings table and in the KenPom table
Found(d, team_name) ==
  /\ \E i \in 1..Len(d.rankings) : d.rankings[i].Team = team_name
  /\ \E i \in 1..Len(d.kenpom) : d.kenpom[i].Team = team_name

PredictGameCalled ==
  /\ prog = "predict"
  /\ cls = "GamePredictor"
  /\ pc \in {"predicted", "failed"}

\* C22: a call of predict_game with a team that is missing from the rankings
\* table or from the KenPom table returns None and does not raise, whatever
\* the location
C22_MissingTeamGivesNone ==
  PredictGameCalled /\ (~Found(data, arg.team1) \/ ~Found(data, arg.team2))
    => pc = "predicted" /\ out = None

Opposite(location) ==
  IF location = "home" THEN "away" ELSE IF location = "away" THEN "home" ELSE "neutral"

\* C23: the margin of a returned prediction is minus the margin of the call
\* with the teams swapped (neutral against neutral, home against away), and
\* it is the neutral margin plus 3.5 when team1 is at home, minus 3.5 when
\* team2 is, the sums being the float sums the code computes
C23_MarginAntisymmetric ==
  PredictGameCalled /\ pc = "predicted" /\ out # None =>
    LET swapped == predict_game(data, out.team2, out.team1, Opposite(out.location))
        neutral == predict_game(data, out.team1, out.team2, "neutral")
    IN  /\ out.predicted_margin = FNeg(swapped.predicted_margin)
        /\ out.location = "home" =>
              out.predicted_margin = FAdd(neutral.predicted_margin, FromRatio(35, 10))
        /\ out.location = "away" =>
              out.predicted_margin = FSub(neutral.predicted_margin, FromRatio(35, 10))
        /\ out.location = "neutral" => out.predicted_margin = neutral.predicted_margin

\* an away game of the team with 70.10 at the team with 60.10: the float
\* margin, 3.4999999999999973 - 3.5, is below 0 and not 0
C23_Witness ==
  /\ PredictGameCalled
  /\ pc = "predicted"
  /\ out # None
  /\ out.location = "away"
  /\ out.team1 # out.team2
  /\ get_team_data(data, out.team1).our_score = FromRatio(7010, 100)
  /\ get_team_data(data, out.team2).our_score = FromRatio(6010, 100)
  /\ FLess(out.predicted_margin, FZero)
  /\ out.winner = out.team2

\* C24: the winner named for a matchup is the one named when the two teams
\* are passed in the other order, by predict_game on a neutral floor and by
\* simulate_matchups, equal scores included
C24_WinnerIndependentOfOrder ==
  /\ PredictGameCalled /\ pc = "predicted" /\ out # None /\ out.location = "neutral"
       => out.winner = predict_game(data, out.team2, out.team1, "neutral").winner
  /\ prog = "predict" /\ pc = "simulated"
       => \A i \in 1..Len(out) :
            out[i].winner = simulate_matchup(data.rankings, out[i].team2, out[i].team1).winner

\* the rankings file of a finished scraper run
RankingsWritten ==
  /\ prog = "scrape"
  /\ pc = "done"
  /\ LatestFile("rankings") \in out

\* C25: in the rankings file written by the scraper AdjEM = AdjOE - AdjDE
\* (the difference of the two floats) and AdjEM_Rank = 1 + the number of
\* teams of the table with a strictly greater AdjEM (equal margins share a
\* rank), and the rows are in
\* non-decreasing AdjEM_Rank order
C25_CompetitionRankingByMargin ==
  RankingsWritten =>
    /\ Len(results_df) = Len(files)
    /\ \A i \in 1..Len(results_df) :
         /\ results_df[i].AdjEM = FloatDifference(results_df[i].AdjOE, results_df[i].AdjDE)
         /\ results_df[i].AdjEM_Rank =
              1 + Cardinality({j \in 1..Len(results_df) : results_df[j].AdjEM > results_df[i].AdjEM})
         /\ \A j \in 1..Len(results_df) :
              results_df[i].AdjEM = results_df[j].AdjEM
                => results_df[i].AdjEM_Rank = results_df[j].AdjEM_Rank
         /\ \E k \in 1..Len(files) :
              /\ files[k].Team = results_df[i].Team
              /\ files[k].AdjOE = results_df[i].AdjOE
              /\ files[k].AdjDE = results_df[i].AdjDE
    /\ \A i \in 1..(Len(results_df) - 1) : results_df[i].AdjEM_Rank <= results_df[i + 1].AdjEM_Rank

\* a written table of three teams where two share rank 1 and the third has
\* rank 3
C25_Witness ==
  /\ RankingsWritten
  /\ Len(results_df) = 3
  /\ results_df[1].AdjEM_Rank = 1
  /\ results_df[2].AdjEM_Rank = 1
  /\ results_df[3].AdjEM_Rank = 3
  /\ results_df[1].AdjOE # results_df[2].AdjOE

\* the upset rows the team leads and the ones it trails in
UpsetWins(team_name) ==
  Cardinality({i \in 1..Len(data.upset_games.rows) :
                 /\ Mentions(data.upset_games.rows[i], team_name)
                 /\ AppearsEarly(data.upset_games.rows[i], team_name)})

UpsetLosses(team_name) ==
  Cardinality({i \in 1..Len(data.upset_games.rows) :
                 /\ Mentions(data.upset_games.rows[i], team_name)
                 /\ ~AppearsEarly(data.upset_games.rows[i], team_name)})

InNoGameRow(team_name) ==
  /\ \A i \in 1..Len(data.upset_games.rows) : ~Mentions(data.upset_games.rows[i], team_name)
  /\ \A i \in 1..Len(data.exciting_games.rows) : ~Mentions(data.exciting_games.rows[i], team_name)

\* C26: the results score of every ranked team is between 0 and 100,
\* whatever the upset and exciting tables hold, and it is 50 for a team
\* that no game row mentions
C26_ResultsScoreInRange ==
  prog = "hybrid" /\ pc \in HybridRankedSteps =>
    \A i \in 1..Len(results_df) :
      /\ FLessEq(FromInt(0), results_df[i].Results_Score)
      /\ FLessEq(results_df[i].Results_Score, FromInt(100))
      /\ results_df[i].Results_Score = analyze_game_results(data, results_df[i].Team)
      /\ InNoGameRow(results_df[i].Team) => results_df[i].Results_Score = FromInt(50)

\* a ranking where one team has five upset wins and a clutch bonus (110
\* before the cap) and another five upset losses (below 0 before the cap)
C26_Witness ==
  /\ prog = "hybrid"
  /\ pc = "ranked"
  /\ \E i, j \in 1..Len(results_df) :
       /\ UpsetWins(results_df[i].Team) = ManyGames
       /\ ~InNoGameRow(results_df[i].Team)
       /\ FLess(FromInt(100), analyze_game_results_uncapped(data, results_df[i].Team))
       /\ results_df[i].Results_Score = FromInt(100)
       /\ UpsetLosses(results_df[j].Team) = ManyGames
       /\ FLess(analyze_game_results_uncapped(data, results_df[j].Team), FromInt(0))
       /\ results_df[j].Results_Score = FromInt(0)

RowScored == prog = "weighted" /\ pc = "scored" /\ arg.row > 0

\* at least two teams of the table differ on the column
TwoTeamsDiffer(column) == ColumnMax(data, column) # ColumnMin(data, column)

\* C27: when two teams differ on the metric the offensive and the defensive
\* score of a row are in [0,100], 100 for the highest AdjOE / lowest AdjDE
\* and 0 for the lowest AdjOE / highest AdjDE; the momentum score of a row
\* whose AdjEM_Rank is in 1..N is in [20,100]
C27_ComponentScoresInRange ==
  RowScored =>
    /\ TwoTeamsDiffer("AdjOE") =>
         /\ Between(out.offensive_efficiency, 0, 100)
         /\ data[arg.row].AdjOE = ColumnMax(data, "AdjOE") => Equals(out.offensive_efficiency, 100)
         /\ data[arg.row].AdjOE = ColumnMin(data, "AdjOE") => Equals(out.offensive_efficiency, 0)
    /\ TwoTeamsDiffer("AdjDE") =>
         /\ Between(out.defensive_efficiency, 0, 100)
         /\ data[arg.row].AdjDE = ColumnMin(data, "AdjDE") => Equals(out.defensive_efficiency, 100)
         /\ data[arg.row].AdjDE = ColumnMax(data, "AdjDE") => Equals(out.defensive_efficiency, 0)
    /\ data[arg.row].AdjEM_Rank \in 1..Len(data) => Between(out.momentum, 20, 100)

====
